---- MODULE Spec2Model ----
(***************************************************************************)
(* Model of the Review-tool repository: the client Data Service over the   *)
(* browser-local store, the guest-data migration endpoint, the login /     *)
(* invite-code flow and the report generator with its cache.               *)
(***************************************************************************)
EXTENDS Integers, Sequences, FiniteSets, TLC

(***************************************************************************)
(* Bounds of the model.                                                    *)
(***************************************************************************)
MaxClock == 2
MaxItems == 2
\* the largest number of insert batches one migration request needs
MaxBatches == 2
\* how often migrateGuestData is called
MaxMigrateCalls == 2

\* largest number of rows of review_items while reports are generated
MaxRemote == 1

\* how many rows POST /api/items creates in all
MaxRowIds == 2

\* largest number of items the week view holds
MaxViewItems == 3

\* largest length asked of generateRandomCode
MaxLen == 3

(***************************************************************************)
(* Values.                                                                 *)
(***************************************************************************)
\* A localStorage key holds <<>> when absent and <<value>> when set.
Absent == <<>>
Present(v) == <<v>>

\* null for a number (Date.now() is positive) and for an optional string
NullNum == 0
NullStr == <<>>

\* Category tags, each one token of a content string.
TagBasic == "[basic]"
TagEnergy == "[energy]"
TagCreate == "[create]"

\* Content strings are sequences of tokens; " " is whitespace.
Texts == {<<"a">>, <<" ", "b", " ">>}

\* ISO dates are fixed-width digit strings, compared as strings.
Dates == {<<0, 2>>, <<1, 0>>}

\* The text typed into an input of the add dialog: blank, or "a" with a
\* trailing space.
SubmitTexts == {<<" ">>, <<"a", " ">>}

VARIABLES
    clock,      \* Date.now()
    lsItems,    \* localStorage['review-items']: Absent or the item array
    lsUser,     \* localStorage['review-user']: Absent or {firstRecordDate}
    lsGuest,    \* localStorage['review-guest-mode']: Absent or "true"
    configured, \* isSupabaseConfigured()
    last,       \* the client operation that completed last
    before,     \* for a completed getItems: the operation that completed right
                \* before it, with the arguments and call time of an addItem
    session,    \* the Supabase session of the client: <<>> or <<session>>
    remoteItems,\* table review_items, in insertion order
    mig,        \* the migrateGuestData call in flight and its request
    accounts,   \* auth.users: the accounts, by email and password
    invites,    \* table invite_codes: row id -> row
    profiles,   \* table user_profiles: the ids that have a profile
    lg,         \* the POST /api/auth/login requests, one per slot
    adm,        \* the DELETE /api/invite/:id request
    codes,      \* the admin page's list of invite codes, by row id
    reports,    \* table review_reports, in insertion order
    gen,        \* the generateReport calls, one per slot, with their requests
    env,        \* KIMI_API_KEY of the server and VITE_KIMI_API_KEY of the client
    nextId,     \* the next id review_items gives to a new row
    req,        \* the requests to /api/items, one per slot
    view,       \* the items the week view shows for the day asked for
    lastCode,   \* the invite code generateRandomCode made last
    add,        \* the guest addItem call that has saved its item, if any
    stats,      \* the stats the profile page loaded last
    auth,       \* the state of the AuthProvider: isGuest and user
    iss,        \* the POST /api/invite/create request and its loop
    sub         \* a submission of the add dialog in remote mode and its inserts

storageVars == <<lsItems, lsUser, lsGuest>>

\* what the operations on the guest store leave alone
authVars == <<accounts, invites, profiles, lg, adm, codes>>

reportVars == <<reports, gen, env>>

gatewayVars == <<nextId, req>>

\* the calls in progress and what the pages hold
flowVars == <<add, stats, auth, iss, sub>>

pageVars == <<view, lastCode, flowVars>>

backendVars == <<session, remoteItems, mig, authVars, reportVars, gatewayVars, pageVars>>

vars ==
    <<clock, lsItems, lsUser, lsGuest, configured, last, before, session, remoteItems, mig,
      accounts, invites, profiles, lg, adm, codes, reports, gen, env, nextId, req, view, lastCode,
      add, stats, auth, iss, sub>>

(***************************************************************************)
(* String helpers.                                                         *)
(***************************************************************************)
RECURSIVE TrimStart(_)
TrimStart(s) ==
    IF s # <<>> /\ Head(s) = " " THEN TrimStart(Tail(s)) ELSE s

RECURSIVE TrimEnd(_)
TrimEnd(s) ==
    IF s # <<>> /\ s[Len(s)] = " " THEN TrimEnd(SubSeq(s, 1, Len(s) - 1)) ELSE s

\* String.prototype.trim
Trim(s) == TrimEnd(TrimStart(s))

\* s <= t in JavaScript string comparison (lexicographic by code unit)
RECURSIVE StrLe(_, _)
StrLe(s, t) ==
    IF s = <<>> THEN TRUE
    ELSE IF t = <<>> THEN FALSE
    ELSE IF Head(s) # Head(t) THEN Head(s) < Head(t)
    ELSE StrLe(Tail(s), Tail(t))

\* JavaScript truthiness of an optional string and of an optional number
Truthy(x) == x # NullStr

TruthyNum(n) == n # NullNum

(***************************************************************************)
(* Local persistence adapter.                                              *)
(***************************************************************************)
getLocalItems == IF lsItems = Absent THEN <<>> ELSE lsItems[1]

userDataOf(u) == IF u = Absent THEN [firstRecordDate |-> NullNum] ELSE u[1]

getLocalUserData == userDataOf(lsUser)

\* guest mode decided by the absence of a session
isGuestBySession == session = <<>> \/ ~configured

isGuest == lsGuest = Present("true") \/ ~configured

\* The record of a completed client operation: its arguments, the clock at
\* the call, how it ended, what it returned, and how many 'storage-update'
\* events and network calls it made.
NoOp ==
    [op |-> "none", arg |-> <<>>, time |-> 0, outcome |-> "none", value |-> <<>>,
     events |-> 0, net |-> 0]

Done(op, arg, time, outcome, value, ev, net) ==
    [op |-> op, arg |-> arg, time |-> time, outcome |-> outcome, value |-> value,
     events |-> ev, net |-> net]

(***************************************************************************)
(* Data Service, guest branch.  A store is the part of the local state an  *)
(* addItem call reads and writes.                                          *)
(***************************************************************************)
Store == [items |-> getLocalItems, user |-> lsUser, clock |-> clock, events |-> 0]

\* How far the clock moves between the Date.now() readings of one addItem
\* call: from id to createdAt, and from createdAt to firstRecordDate.
Readings == [1..2 -> 0..1]

newItemOf(S, content, date, r) ==
    [id |-> S.clock,
     content |-> Trim(content),
     date |-> date,
     createdAt |-> S.clock + r[1]]

\* addItem that stamps firstRecordDate on every call
addItemGuestRestamp(S, content, date, r) ==
    LET newItem == newItemOf(S, content, date, r)
        t3 == newItem.createdAt + r[2]
    IN  [items |-> Append(S.items, newItem),
         events |-> S.events + 1,
         user |-> Present([firstRecordDate |-> t3]),
         clock |-> t3]

addItemGuest(S, content, date, r) ==
    LET newItem == newItemOf(S, content, date, r)
        userData == userDataOf(S.user)
        t3 == newItem.createdAt + r[2]
    IN  [items |-> Append(S.items, newItem),
         events |-> S.events + 1,
         user |-> IF ~TruthyNum(userData.firstRecordDate)
                  THEN Present([firstRecordDate |-> t3])
                  ELSE S.user,
         clock |-> IF ~TruthyNum(userData.firstRecordDate) THEN t3 ELSE newItem.createdAt]

\* getItems with the upper end of the range excluded
getItemsGuestExclusive(items, startDate, endDate) ==
    IF Truthy(startDate) /\ Truthy(endDate)
    THEN SelectSeq(items, LAMBDA item : StrLe(startDate, item.date) /\ StrLe(item.date, endDate)
                                        /\ item.date # endDate)
    ELSE items

getItemsGuest(items, startDate, endDate) ==
    IF Truthy(startDate) /\ Truthy(endDate)
    THEN SelectSeq(items, LAMBDA item : StrLe(startDate, item.date) /\ StrLe(item.date, endDate))
    ELSE items

Tick ==
    /\ clock < MaxClock
    /\ clock' = clock + 1
    /\ UNCHANGED <<lsItems, lsUser, lsGuest, configured, last, before, backendVars>>

AddItem(content, date, r) ==
    /\ isGuest
    /\ Len(getLocalItems) < MaxItems
    /\ LET S == addItemGuest(Store, content, date, r)
       IN  /\ S.clock <= MaxClock
           /\ lsItems' = Present(S.items)
           /\ lsUser' = S.user
           /\ clock' = S.clock
           /\ last' = Done("addItem", <<content, date>>, clock, "return",
                           newItemOf(Store, content, date, r), S.events, 0)
    /\ before' = <<>>
    /\ UNCHANGED <<lsGuest, configured, backendVars>>

GetItems(startDate, endDate) ==
    /\ isGuest
    /\ last' = Done("getItems", <<startDate, endDate>>, clock, "return",
                    getItemsGuest(getLocalItems, startDate, endDate), 0, 0)
    /\ before' = IF last.op = "addItem" THEN <<last.op, last.arg, last.time>> ELSE <<last.op>>
    /\ UNCHANGED <<clock, lsItems, lsUser, lsGuest, configured, backendVars>>

\* a filter that also drops the oldest item when no item has the id
withoutIdOrOldest(items, id) ==
    IF \E i \in DOMAIN items : items[i].id = id
    THEN SelectSeq(items, LAMBDA item : item.id # id)
    ELSE IF items = <<>> THEN items ELSE Tail(items)

\* items.filter(item => item.id !== id)
withoutId(items, id) == SelectSeq(items, LAMBDA item : item.id # id)

DeleteItem(id) ==
    /\ isGuest
    /\ lsItems' = Present(withoutId(getLocalItems, id))
    /\ last' = Done("deleteItem", <<id>>, clock, "return", <<>>, 1, 0)
    /\ before' = <<>>
    /\ UNCHANGED <<clock, lsUser, lsGuest, configured, backendVars>>

\* findIndex that gives the first position when no item has the id
findIndexOrFirst(items, id) ==
    IF \E i \in DOMAIN items : items[i].id = id
    THEN CHOOSE i \in DOMAIN items :
            /\ items[i].id = id
            /\ \A j \in 1..(i - 1) : items[j].id # id
    ELSE IF items = <<>> THEN 0 ELSE 1

\* findIndex: the first position holding the id, 0 when there is none
findIndex(items, id) ==
    IF \E i \in DOMAIN items : items[i].id = id
    THEN CHOOSE i \in DOMAIN items :
            /\ items[i].id = id
            /\ \A j \in 1..(i - 1) : items[j].id # id
    ELSE 0

UpdateItem(id, content, date) ==
    /\ isGuest
    /\ LET items == getLocalItems
           index == findIndex(items, id)
       IN  IF index = 0
           THEN /\ last' = Done("updateItem", <<id, content, date>>, clock,
                                "throw", "Item not found", 0, 0)
                /\ UNCHANGED lsItems
           ELSE LET updated == [items[index] EXCEPT !.content = Trim(content),
                                                    !.date = date]
                IN  /\ lsItems' = Present([items EXCEPT ![index] = updated])
                    /\ last' = Done("updateItem", <<id, content, date>>, clock,
                                    "return", updated, 1, 0)
    /\ before' = <<>>
    /\ UNCHANGED <<clock, lsUser, lsGuest, configured, backendVars>>

\* The addItem calls of one submission, in the order of ITEM_CATEGORIES.
submitCalls(contents) ==
    (IF Trim(contents.basic) # <<>> THEN <<<<TagBasic>> \o Trim(contents.basic)>> ELSE <<>>)
    \o (IF Trim(contents.energy) # <<>> THEN <<<<TagEnergy>> \o Trim(contents.energy)>> ELSE <<>>)
    \o (IF Trim(contents.create) # <<>> THEN <<<<TagCreate>> \o Trim(contents.create)>> ELSE <<>>)

\* The guest-mode addItem calls run one after the other; rs[k] gives the
\* clock readings of call k and the time that passes before call k + 1.
RECURSIVE addAll(_, _, _, _)
addAll(S, calls, date, rs) ==
    IF calls = <<>> THEN S
    ELSE LET S1 == addItemGuest(S, Head(calls), date, Head(rs))
         IN  addAll([S1 EXCEPT !.clock = S1.clock + Head(rs)[3]], Tail(calls), date, Tail(rs))

HandleSubmit(contents, date) ==
    /\ isGuest
    /\ submitCalls(contents) # <<>>
    /\ Len(getLocalItems) + Len(submitCalls(contents)) <= MaxItems
    /\ \E rs \in [1..Len(submitCalls(contents)) -> [1..3 -> 0..1]] :
          LET S == addAll(Store, submitCalls(contents), date, rs)
          IN  /\ S.clock <= MaxClock
              /\ lsItems' = Present(S.items)
              /\ lsUser' = S.user
              /\ clock' = S.clock
              /\ last' = Done("handleSubmit", <<contents, date>>, clock, "return",
                              <<>>, S.events + 1, 0)
    /\ before' = <<>>
    /\ UNCHANGED <<lsGuest, configured, backendVars>>

NoSession == <<>>

MigIdle ==
    [pc |-> "idle", items |-> <<>>, token |-> <<>>, i |-> 0, insertedCount |-> 0,
     status |-> 0, migratedCount |-> 0, remoteBefore |-> 0, calls |-> 0]

Procs == {"p1", "p2"}

LoginIdle ==
    [pc |-> "idle", username |-> <<>>, password |-> <<>>, inviteCode |-> <<>>,
     inviteId |-> 0, userId |-> <<>>, result |-> "none", isNewUser |-> FALSE]

AdminIdle == [pc |-> "idle", id |-> 0, status |-> 0]

InitAuthEmpty ==
    /\ accounts = {}
    /\ invites = <<>>
    /\ profiles = {}
    /\ lg = [p \in Procs |-> LoginIdle]
    /\ adm = AdminIdle
    /\ codes = {}

ReportIdle ==
    [pc |-> "idle", type |-> "", startDate |-> NullStr, endDate |-> NullStr, items |-> <<>>,
     isGuest |-> FALSE, token |-> <<>>, status |-> 0, content |-> NullStr, cached |-> FALSE,
     seen |-> 0, apiCalls |-> 0, apiFailed |-> FALSE, result |-> "none", value |-> NullStr]

InitReportEmpty ==
    /\ reports = <<>>
    /\ gen = [p \in Procs |-> ReportIdle]
    /\ env = [kimiApiKey |-> FALSE, viteKimiApiKey |-> FALSE]

ItemsIdle ==
    [pc |-> "idle", method |-> "", token |-> <<>>, userId |-> "", id |-> 0, status |-> 0,
     items |-> <<>>]

InitGatewayEmpty ==
    /\ nextId = 1
    /\ req = [p \in Procs |-> ItemsIdle]

NoCode == [made |-> FALSE, length |-> 0, code |-> <<>>]

ViewIdle == [items |-> <<>>, date |-> NullStr, rows |-> <<>>]

AddIdle == [pc |-> "idle", content |-> <<>>, date |-> <<>>, item |-> <<>>, r |-> <<>>]

NoStats == [loaded |-> FALSE, totalDays |-> 0, totalItems |-> 0, firstRecordDate |-> NullNum]

AuthIdle == [isGuest |-> FALSE, user |-> <<>>]

SubIdle ==
    [pc |-> "idle", contents |-> <<>>, calls |-> <<>>, date |-> <<>>, state |-> <<>>,
     rows |-> <<>>, result |-> "none", events |-> 0, count |-> 0]

IssueIdle ==
    [pc |-> "idle", count |-> 0, length |-> 0, i |-> 0, attempts |-> 0, tried |-> 0,
     codes |-> <<>>, failed |-> {}, status |-> 0, responseCount |-> 0]

InitFlowEmpty ==
    /\ add = AddIdle
    /\ stats = NoStats
    /\ auth = AuthIdle
    /\ iss = IssueIdle
    /\ sub = SubIdle

InitPageEmpty ==
    /\ view = ViewIdle
    /\ lastCode = NoCode
    /\ InitFlowEmpty

InitBackend ==
    /\ session = NoSession
    /\ remoteItems = <<>>
    /\ mig = MigIdle
    /\ InitAuthEmpty
    /\ InitReportEmpty
    /\ InitGatewayEmpty
    /\ InitPageEmpty

InitGuest ==
    /\ InitBackend
    /\ clock = 1
    /\ lsItems = Absent
    /\ lsUser = Absent
    /\ lsGuest = Present("true")
    /\ configured \in BOOLEAN
    /\ last = NoOp
    /\ before = <<>>

NextGuest ==
    \/ Tick
    \/ \E content \in Texts, date \in Dates, r \in Readings : AddItem(content, date, r)
    \/ \E s \in Dates \cup {NullStr}, e \in Dates \cup {NullStr} : GetItems(s, e)
    \/ \E id \in 1..MaxClock : DeleteItem(id)
    \/ \E id \in 1..MaxClock, content \in Texts : UpdateItem(id, content, <<1, 0>>)

SpecGuest == InitGuest /\ [][NextGuest]_vars

(***************************************************************************)
(* The add dialog over the guest store.                                    *)
(***************************************************************************)
NextSubmit ==
    \/ Tick
    \/ \E date \in Dates, r \in Readings : AddItem(<<"a">>, date, r)
    \/ \E contents \in [basic : SubmitTexts, energy : SubmitTexts, create : SubmitTexts],
          date \in Dates :
          HandleSubmit(contents, date)
    \/ \E id \in 1..MaxClock : DeleteItem(id)

SpecSubmit == InitGuest /\ [][NextSubmit]_vars

(***************************************************************************)
(* Migration of the guest data: DataService.migrateGuestData on the client *)
(* and POST /api/items/migrate on the server.                              *)
(***************************************************************************)
batchSize == 100

Users == {"u1", "u2"}

\* A bearer token is header.payload.signature; the payload carries sub.
tokenOf(userId) == <<"header", [sub |-> userId], "signature">>

sessionOf(userId) == <<[user |-> userId, access_token |-> tokenOf(userId)]>>

\* null is ""
getUserIdFromToken(token) ==
    IF Len(token) # 3 THEN "" ELSE token[2].sub

Min(a, b) == IF a < b THEN a ELSE b

\* itemsToInsert.slice(i, i + batchSize)
sliceBatch(itemsToInsert, i) ==
    SubSeq(itemsToInsert, i + 1, Min(i + batchSize, Len(itemsToInsert)))

\* the rows the handler prepares from the posted items
itemsToInsertOf(userId, items, now) ==
    [k \in DOMAIN items |->
        [user_id |-> userId,
         content |-> items[k].content,
         record_date |-> items[k].date,
         created_at |-> IF TruthyNum(items[k].createdAt) THEN items[k].createdAt ELSE now]]

\* insertedCount after an insert that charges a full batch whatever its size
countAfterBatchFull(insertedCount, batch, error) ==
    IF error THEN insertedCount ELSE insertedCount + batchSize

\* insertedCount after the insert of a batch
countAfterBatch(insertedCount, batch, error) ==
    IF error THEN insertedCount ELSE insertedCount + Len(batch)

\* migrateGuestData that looks the session up before it looks at the items
startsWithoutRequestEager(localItems) == FALSE

\* migrateGuestData returns at once, without a request, on an empty local set
startsWithoutRequest(localItems) == Len(localItems) = 0

\* A guest store holding n items, as n addItem calls at times 1..n leave it.
seedItems(n) ==
    [k \in 1..n |-> [id |-> k, content |-> <<"a">>, date |-> <<0, 2>>, createdAt |-> k]]

SeedCounts ==
    {0, 1} \cup {k * batchSize : k \in 1..(MaxBatches - 1)}
           \cup {k * batchSize + 1 : k \in 1..(MaxBatches - 1)}

\* the client calls migrateGuestData
MigrateCall ==
    /\ mig.pc = "idle"
    /\ mig.calls < MaxMigrateCalls
    /\ LET localItems == getLocalItems
       IN  IF startsWithoutRequest(localItems)
           THEN /\ last' = Done("migrateGuestData", <<Len(localItems)>>, clock, "return",
                                [success |-> TRUE, count |-> 0], 0, 0)
                /\ mig' = [mig EXCEPT !.calls = @ + 1]
           ELSE IF session = NoSession
           THEN /\ last' = Done("migrateGuestData", <<Len(localItems)>>, clock, "throw",
                                "Not authenticated", 0, 1)
                /\ mig' = [mig EXCEPT !.calls = @ + 1]
           ELSE /\ mig' = [MigIdle EXCEPT !.pc = "sent",
                                          !.items = localItems,
                                          !.token = session[1].access_token,
                                          !.calls = mig.calls + 1]
                /\ UNCHANGED last
    /\ before' = <<>>
    /\ UNCHANGED <<clock, storageVars, configured, session, remoteItems, authVars, reportVars, gatewayVars, pageVars>>

\* the handler takes the request up: authorization and the checks on items
MigrateReceive ==
    /\ mig.pc = "sent"
    /\ mig' = IF getUserIdFromToken(mig.token) = ""
              THEN [mig EXCEPT !.pc = "responded", !.status = 401]
              ELSE IF Len(mig.items) = 0
              THEN [mig EXCEPT !.pc = "responded", !.status = 200, !.migratedCount = 0]
              ELSE [mig EXCEPT !.pc = "server", !.i = 0, !.insertedCount = 0,
                               !.remoteBefore = Len(remoteItems)]
    /\ UNCHANGED <<clock, storageVars, configured, session, remoteItems, last, before, authVars, reportVars, gatewayVars, pageVars>>

\* one turn of the batch loop: the insert of a batch succeeds or fails as a whole
MigrateBatch(error) ==
    /\ mig.pc = "server"
    /\ mig.i < Len(mig.items)
    /\ LET rows == itemsToInsertOf(getUserIdFromToken(mig.token), mig.items, clock)
           batch == sliceBatch(rows, mig.i)
           \* the table gives every row it takes an id
           stored == [k \in DOMAIN batch |-> [id |-> nextId + k - 1] @@ batch[k]]
       IN  /\ remoteItems' = IF error THEN remoteItems ELSE remoteItems \o stored
           /\ nextId' = IF error THEN nextId ELSE nextId + Len(batch)
           /\ mig' = [mig EXCEPT !.insertedCount = countAfterBatch(@, batch, error),
                                 !.i = @ + batchSize]
    /\ UNCHANGED <<clock, storageVars, configured, session, last, before, authVars, reportVars, req, pageVars>>

\* the loop is over: 200 with the count
MigrateRespond ==
    /\ mig.pc = "server"
    /\ mig.i >= Len(mig.items)
    /\ mig' = [mig EXCEPT !.pc = "responded", !.status = 200,
                          !.migratedCount = mig.insertedCount]
    /\ UNCHANGED <<clock, storageVars, configured, session, remoteItems, last, before, authVars, reportVars, gatewayVars, pageVars>>

\* the handler's catch: 500
MigrateServerError ==
    /\ mig.pc = "server"
    /\ mig' = [mig EXCEPT !.pc = "responded", !.status = 500]
    /\ UNCHANGED <<clock, storageVars, configured, session, remoteItems, last, before, authVars, reportVars, gatewayVars, pageVars>>

\* fetch rejects: the request or the response is lost
MigrateFetchError ==
    /\ mig.pc \in {"sent", "responded"}
    /\ mig' = [mig EXCEPT !.pc = "idle"]
    /\ last' = Done("migrateGuestData", <<Len(mig.items)>>, clock, "throw",
                    "fetch failed", 0, 2)
    /\ before' = <<>>
    /\ UNCHANGED <<clock, storageVars, configured, session, remoteItems, authVars, reportVars, gatewayVars, pageVars>>

\* the client takes the response up
MigrateReturn ==
    /\ mig.pc = "responded"
    /\ mig' = [mig EXCEPT !.pc = "idle"]
    /\ IF mig.status \notin 200..299
       THEN /\ last' = Done("migrateGuestData", <<Len(mig.items)>>, clock, "throw",
                            "Failed to migrate data", 0, 2)
            /\ UNCHANGED storageVars
       ELSE /\ lsItems' = Absent
            /\ lsUser' = Absent
            /\ lsGuest' = Absent
            /\ last' = Done("migrateGuestData", <<Len(mig.items)>>, clock, "return",
                            [success |-> TRUE, count |-> mig.migratedCount], 1, 2)
    /\ before' = <<>>
    /\ UNCHANGED <<clock, configured, session, remoteItems, authVars, reportVars, gatewayVars, pageVars>>

InitMigrate ==
    /\ clock = batchSize * MaxBatches
    /\ \E n \in SeedCounts :
          /\ lsItems = IF n = 0 THEN Absent ELSE Present(seedItems(n))
          /\ lsUser = IF n = 0 THEN Absent ELSE Present([firstRecordDate |-> 1])
    /\ lsGuest \in {Absent, Present("true")}
    /\ configured = TRUE
    /\ last = NoOp
    /\ before = <<>>
    /\ session \in {NoSession} \cup {sessionOf(u) : u \in Users}
    /\ remoteItems = <<>>
    /\ mig = MigIdle
    /\ InitAuthEmpty
    /\ InitReportEmpty
    /\ InitGatewayEmpty
    /\ InitPageEmpty

NextMigrate ==
    \/ MigrateCall
    \/ MigrateReceive
    \/ \E error \in BOOLEAN : MigrateBatch(error)
    \/ MigrateRespond
    \/ MigrateServerError
    \/ MigrateFetchError
    \/ MigrateReturn

SpecMigrate == InitMigrate /\ [][NextMigrate]_vars

(***************************************************************************)
(* Login and registration: POST /api/auth/login, and the deletion of       *)
(* invite codes by DELETE /api/invite/:id and by the admin page.           *)
(***************************************************************************)
LowerCase == <<"a", "b", "c", "d", "e", "f", "g", "h", "i", "j", "k", "l", "m", "n", "o", "p", "q", "r", "s", "t", "u", "v", "w", "x", "y", "z">>

UpperCase == <<"A", "B", "C", "D", "E", "F", "G", "H", "I", "J", "K", "L", "M", "N", "O", "P", "Q", "R", "S", "T", "U", "V", "W", "X", "Y", "Z">>

Digits == {"0", "1", "2", "3", "4", "5", "6", "7", "8", "9"}

\* the characters of [a-zA-Z0-9_]
WordChars == {LowerCase[i] : i \in 1..26} \cup {UpperCase[i] : i \in 1..26} \cup Digits \cup {"_"}

toLowerChar(c) ==
    IF \E i \in 1..26 : UpperCase[i] = c
    THEN LowerCase[CHOOSE i \in 1..26 : UpperCase[i] = c]
    ELSE c

toUpperChar(c) ==
    IF \E i \in 1..26 : LowerCase[i] = c
    THEN UpperCase[CHOOSE i \in 1..26 : LowerCase[i] = c]
    ELSE c

toLowerCase(str) == [i \in DOMAIN str |-> toLowerChar(str[i])]

toUpperCase(str) == [i \in DOMAIN str |-> toUpperChar(str[i])]

\* /^[a-zA-Z0-9_]{3,20}$/
\* the test of the length alone, without the character class
validUsernameByLength(username) ==
    /\ Len(username) >= 3
    /\ Len(username) <= 20

validUsername(username) ==
    /\ Len(username) >= 3
    /\ Len(username) <= 20
    /\ \A i \in DOMAIN username : username[i] \in WordChars

\* the account email; the fixed domain is left out
emailOf(username) == toLowerCase(username)

emails == {a.email : a \in accounts}

Finished(l, result, isNewUser) ==
    [l EXCEPT !.pc = "done", !.result = result, !.isNewUser = isNewUser]

\* the request arrives: the checks on the body
LoginRequest(p, username, password, inviteCode) ==
    /\ lg[p].pc = "idle"
    /\ LET l == [lg[p] EXCEPT !.username = username, !.password = password,
                              !.inviteCode = inviteCode]
       IN  lg' = [lg EXCEPT ![p] =
                    IF ~Truthy(username) \/ ~Truthy(password)
                    THEN Finished(l, "ValidationError", FALSE)
                    ELSE IF ~validUsername(username)
                    THEN Finished(l, "ValidationError", FALSE)
                    ELSE IF Len(password) < 6
                    THEN Finished(l, "ValidationError", FALSE)
                    ELSE [l EXCEPT !.pc = "signIn"]]
    /\ UNCHANGED <<clock, storageVars, configured, last, before, session, remoteItems, mig, codes, reportVars, gatewayVars, pageVars,
                   accounts, invites, profiles, adm>>

\* signInWithPassword
SignIn(p) ==
    /\ lg[p].pc = "signIn"
    /\ lg' = [lg EXCEPT ![p] =
                IF [email |-> emailOf(lg[p].username), password |-> lg[p].password] \in accounts
                THEN Finished(lg[p], "LoggedIn", FALSE)
                ELSE [lg[p] EXCEPT !.pc = "listUsers"]]
    /\ UNCHANGED <<clock, storageVars, configured, last, before, session, remoteItems, mig, codes, reportVars, gatewayVars, pageVars,
                   accounts, invites, profiles, adm>>

\* auth.admin.listUsers, the existence check and the check that a code came
ListUsers(p, listError) ==
    /\ lg[p].pc = "listUsers"
    /\ lg' = [lg EXCEPT ![p] =
                IF listError
                THEN Finished(lg[p], "ServerError", FALSE)
                ELSE IF emailOf(lg[p].username) \in emails
                THEN Finished(lg[p], "WrongCredential", FALSE)
                ELSE IF ~Truthy(lg[p].inviteCode)
                THEN Finished(lg[p], "NeedsInviteCode", FALSE)
                ELSE [lg[p] EXCEPT !.pc = "invite"]]
    /\ UNCHANGED <<clock, storageVars, configured, last, before, session, remoteItems, mig, codes, reportVars, gatewayVars, pageVars,
                   accounts, invites, profiles, adm>>

\* the select without the filter on is_used
anyWithCode(code) ==
    {id \in DOMAIN invites : invites[id].code = toUpperCase(code)}

\* select * from invite_codes where code = upper(inviteCode) and not is_used
unusedWithCode(code) ==
    {id \in DOMAIN invites : invites[id].code = toUpperCase(code) /\ ~invites[id].is_used}

\* the select with .single(): a row only when exactly one matches
VerifyInvite(p) ==
    /\ lg[p].pc = "invite"
    /\ LET found == unusedWithCode(lg[p].inviteCode)
       IN  lg' = [lg EXCEPT ![p] =
                    IF Cardinality(found) # 1
                    THEN Finished(lg[p], "InvalidInvite", FALSE)
                    ELSE [lg[p] EXCEPT !.pc = "signUp",
                                       !.inviteId = CHOOSE id \in found : TRUE]]
    /\ UNCHANGED <<clock, storageVars, configured, last, before, session, remoteItems, mig, codes, reportVars, gatewayVars, pageVars,
                   accounts, invites, profiles, adm>>

\* a sign-up that marks the invite code used before it fails
SignUpConsuming(p, outcome) ==
    /\ lg[p].pc = "signUp"
    /\ LET email == emailOf(lg[p].username)
       IN  IF outcome # "ok" \/ email \in emails
           THEN /\ lg' = [lg EXCEPT ![p] = Finished(lg[p], "SignUpFailed", FALSE)]
                /\ invites' = [r \in DOMAIN invites |->
                                 IF r = lg[p].inviteId
                                 THEN [invites[r] EXCEPT !.is_used = TRUE]
                                 ELSE invites[r]]
                /\ UNCHANGED accounts
           ELSE /\ accounts' = accounts \cup {[email |-> email, password |-> lg[p].password]}
                /\ lg' = [lg EXCEPT ![p] = [lg[p] EXCEPT !.pc = "profile", !.userId = email]]
                /\ UNCHANGED invites
    /\ UNCHANGED <<clock, storageVars, configured, last, before, session, remoteItems, mig, codes, reportVars, gatewayVars, pageVars,
                   profiles, adm>>

\* auth.signUp: outcome "ok", "error" (signUpError) or "nouser"; an email that
\* is registered already gives signUpError
SignUp(p, outcome) ==
    /\ lg[p].pc = "signUp"
    /\ LET email == emailOf(lg[p].username)
       IN  IF outcome # "ok" \/ email \in emails
           THEN /\ lg' = [lg EXCEPT ![p] = Finished(lg[p], "SignUpFailed", FALSE)]
                /\ UNCHANGED accounts
           ELSE /\ accounts' = accounts \cup {[email |-> email, password |-> lg[p].password]}
                /\ lg' = [lg EXCEPT ![p] = [lg[p] EXCEPT !.pc = "profile", !.userId = email]]
    /\ UNCHANGED <<clock, storageVars, configured, last, before, session, remoteItems, mig, codes, reportVars, gatewayVars, pageVars,
                   invites, profiles, adm>>

\* insert into user_profiles; its error is logged only
CreateProfile(p, profileError) ==
    /\ lg[p].pc = "profile"
    /\ profiles' = IF profileError THEN profiles ELSE profiles \cup {lg[p].userId}
    /\ lg' = [lg EXCEPT ![p] = [lg[p] EXCEPT !.pc = "markUsed"]]
    /\ UNCHANGED <<clock, storageVars, configured, last, before, session, remoteItems, mig, codes, reportVars, gatewayVars, pageVars,
                   accounts, invites, adm>>

\* update invite_codes set ... where id = inviteId, without a test of is_used
markUsedRows(id) == {r \in DOMAIN invites : r = id}

\* the update of the invite code, whose result is not looked at, and the answer
MarkUsed(p, updateError) ==
    /\ lg[p].pc = "markUsed"
    /\ invites' = IF updateError
                  THEN invites
                  ELSE [r \in DOMAIN invites |->
                          IF r \in markUsedRows(lg[p].inviteId)
                          THEN [invites[r] EXCEPT !.is_used = TRUE,
                                                  !.used_by = lg[p].userId,
                                                  !.used_at = clock]
                          ELSE invites[r]]
    /\ lg' = [lg EXCEPT ![p] = Finished(lg[p], "LoggedIn", TRUE)]
    /\ UNCHANGED <<clock, storageVars, configured, last, before, session, remoteItems, mig, codes, reportVars, gatewayVars, pageVars,
                   accounts, profiles, adm>>

\* the rows of invite_codes a command of a role may touch under the
\* policies of the migration; the service role bypasses row level security
rlsAllows(role, command) ==
    \/ role = "service_role"
    \/ command = "SELECT"

\* delete from invite_codes where id = ...
deleteRow(role, id) ==
    IF rlsAllows(role, "DELETE")
    THEN [r \in DOMAIN invites \ {id} |-> invites[r]]
    ELSE invites

\* DELETE /api/invite/:id arrives: the admin key, then the select of is_used
AdminDeleteRequest(keyOk, id) ==
    /\ adm.pc = "idle"
    /\ adm' = IF ~keyOk
              THEN [pc |-> "done", id |-> id, status |-> 401]
              ELSE IF id \notin DOMAIN invites
              THEN [pc |-> "done", id |-> id, status |-> 404]
              ELSE IF invites[id].is_used
              THEN [pc |-> "done", id |-> id, status |-> 400]
              ELSE [pc |-> "delete", id |-> id, status |-> 0]
    /\ UNCHANGED <<clock, storageVars, configured, last, before, session, remoteItems, mig, codes, reportVars, gatewayVars, pageVars,
                   accounts, invites, profiles, lg>>

\* the delete of the endpoint
AdminDeleteExec(deleteError) ==
    /\ adm.pc = "delete"
    /\ invites' = IF deleteError THEN invites ELSE deleteRow("service_role", adm.id)
    /\ adm' = [adm EXCEPT !.pc = "done", !.status = IF deleteError THEN 500 ELSE 200]
    /\ UNCHANGED <<clock, storageVars, configured, last, before, session, remoteItems, mig, codes, reportVars, gatewayVars, pageVars,
                   accounts, profiles, lg>>

\* AdminPage.loadCodes: the page lists the rows of invite_codes
LoadCodes ==
    /\ codes' = IF rlsAllows("anon", "SELECT") THEN DOMAIN invites ELSE {}
    /\ UNCHANGED <<clock, storageVars, configured, last, before, session, remoteItems, mig, reportVars, gatewayVars, pageVars,
                   accounts, invites, profiles, lg, adm>>

\* AdminPage.handleDelete on a listed row: a delete through the browser
\* client with no test of is_used, then the row leaves the list
HandleDelete(id) ==
    /\ id \in codes
    /\ invites' = deleteRow("anon", id)
    /\ codes' = codes \ {id}
    /\ UNCHANGED <<clock, storageVars, configured, last, before, session, remoteItems, mig, reportVars, gatewayVars, pageVars,
                   accounts, profiles, lg, adm>>

\* the inputs of the login requests
LoginNames == {<<"a", "l", "i">>, <<"B", "o", "b">>}

LoginPasswords == {<<"s", "e", "c", "r", "e", "t">>, <<"s", "e", "c", "r", "e", "T">>}

CodeA == <<"A", "B", "2", "3">>

LoginCodes == {<<>>, <<"a", "b", "2", "3">>, <<"Z", "Z", "9", "9">>}

InviteIds == {1}

InitAuth ==
    /\ clock = 1
    /\ lsItems = Absent
    /\ lsUser = Absent
    /\ lsGuest = Absent
    /\ configured = TRUE
    /\ last = NoOp
    /\ before = <<>>
    /\ session = NoSession
    /\ remoteItems = <<>>
    /\ mig = MigIdle
    /\ accounts = {}
    /\ invites = [id \in InviteIds |->
                    [code |-> CodeA, is_used |-> FALSE, used_by |-> <<>>, used_at |-> 0]]
    /\ profiles = {}
    /\ lg = [p \in Procs |-> LoginIdle]
    /\ adm = AdminIdle
    /\ codes = {}
    /\ InitReportEmpty
    /\ InitGatewayEmpty
    /\ InitPageEmpty

NextAuth ==
    \/ Tick
    \/ \E p \in Procs, username \in LoginNames, password \in LoginPasswords,
          inviteCode \in LoginCodes : LoginRequest(p, username, password, inviteCode)
    \/ \E p \in Procs : SignIn(p)
    \/ \E p \in Procs, listError \in BOOLEAN : ListUsers(p, listError)
    \/ \E p \in Procs : VerifyInvite(p)
    \/ \E p \in Procs, outcome \in {"ok", "error", "nouser"} : SignUp(p, outcome)
    \/ \E p \in Procs, profileError \in BOOLEAN : CreateProfile(p, profileError)
    \/ \E p \in Procs, updateError \in BOOLEAN : MarkUsed(p, updateError)
    \/ \E keyOk \in BOOLEAN, id \in InviteIds : AdminDeleteRequest(keyOk, id)
    \/ \E deleteError \in BOOLEAN : AdminDeleteExec(deleteError)
    \/ LoadCodes
    \/ \E id \in InviteIds : HandleDelete(id)

SpecAuth == InitAuth /\ [][NextAuth]_vars

\* ---- the checks on the body, over well-formed and malformed bodies ----

BodyNames ==
    {<<>>, <<"a", "b">>, <<"a", "-", "b">>, <<"a", "_", "1">>,
     [i \in 1..20 |-> "x"], [i \in 1..21 |-> "x"]}

BodyPasswords == {<<>>, <<"1", "2", "3", "4", "5">>, <<"1", "2", "3", "4", "5", "6">>}

NextLoginBody ==
    \/ \E p \in Procs, username \in BodyNames, password \in BodyPasswords :
          LoginRequest(p, username, password, <<>>)
    \/ \E p \in Procs : SignIn(p)
    \/ \E p \in Procs, listError \in BOOLEAN : ListUsers(p, listError)

SpecLoginBody == InitAuth /\ [][NextLoginBody]_vars

\* ---- the earlier login handler: the invite code is the password ----

\* the request arrives: the checks on the body; the invite code is kept as
\* the password of the attempt
InviteLoginRequest(p, username, inviteCode) ==
    /\ lg[p].pc = "idle"
    /\ LET l == [lg[p] EXCEPT !.username = username, !.password = inviteCode,
                              !.inviteCode = inviteCode]
       IN  lg' = [lg EXCEPT ![p] =
                    IF ~Truthy(username) \/ ~Truthy(inviteCode)
                    THEN Finished(l, "ValidationError", FALSE)
                    ELSE IF ~validUsername(username)
                    THEN Finished(l, "ValidationError", FALSE)
                    ELSE [l EXCEPT !.pc = "signInByCode"]]
    /\ UNCHANGED <<clock, storageVars, configured, last, before, session, remoteItems, mig, codes, reportVars, gatewayVars, pageVars,
                   accounts, invites, profiles, adm>>

\* signInWithPassword with the invite code; a failure goes on to the invite
\* code lookup, whether or not the account exists
InviteSignIn(p) ==
    /\ lg[p].pc = "signInByCode"
    /\ lg' = [lg EXCEPT ![p] =
                IF [email |-> emailOf(lg[p].username), password |-> lg[p].password] \in accounts
                THEN Finished(lg[p], "LoggedIn", FALSE)
                ELSE [lg[p] EXCEPT !.pc = "invite"]]
    /\ UNCHANGED <<clock, storageVars, configured, last, before, session, remoteItems, mig, codes, reportVars, gatewayVars, pageVars,
                   accounts, invites, profiles, adm>>

CodeB == <<"C", "D", "4", "5">>

EarlyInvites == <<CodeA, CodeB>>

EarlyCodes == {<<>>, <<"a", "b", "2", "3">>, <<"c", "d", "4", "5">>}

InitEarlyLogin ==
    /\ clock = 1
    /\ lsItems = Absent
    /\ lsUser = Absent
    /\ lsGuest = Absent
    /\ configured = TRUE
    /\ last = NoOp
    /\ before = <<>>
    /\ session = NoSession
    /\ remoteItems = <<>>
    /\ mig = MigIdle
    /\ accounts = {}
    /\ invites = [id \in DOMAIN EarlyInvites |->
                    [code |-> EarlyInvites[id], is_used |-> FALSE, used_by |-> <<>>, used_at |-> 0]]
    /\ profiles = {}
    /\ lg = [p \in Procs |-> LoginIdle]
    /\ adm = AdminIdle
    /\ codes = {}
    /\ InitReportEmpty
    /\ InitGatewayEmpty
    /\ InitPageEmpty

NextEarlyLogin ==
    \/ \E p \in Procs, username \in LoginNames, inviteCode \in EarlyCodes :
          InviteLoginRequest(p, username, inviteCode)
    \/ \E p \in Procs : InviteSignIn(p)
    \/ \E p \in Procs : VerifyInvite(p)
    \/ \E p \in Procs, outcome \in {"ok", "error", "nouser"} : SignUp(p, outcome)
    \/ \E p \in Procs, profileError \in BOOLEAN : CreateProfile(p, profileError)
    \/ \E p \in Procs, updateError \in BOOLEAN : MarkUsed(p, updateError)

SpecEarlyLogin == InitEarlyLogin /\ [][NextEarlyLogin]_vars

(***************************************************************************)
(* Report generator: DataService.generateReport on the client and the      *)
(* handler of POST /api/review/generate with its cache, review_reports.    *)
(* A report text is the sequence of its lines; the empty string is <<>>.   *)
(***************************************************************************)
periodWord(type) == IF type = "week" THEN "zhou" ELSE "yue"

\* the template of the client; it names the period and the number of items
getMockReport(type, startDate, endDate, itemCount) ==
    <<"## summary", periodWord(type), startDate, endDate, itemCount,
      IF itemCount > 0 THEN "keep recording" ELSE "no records yet",
      "## highlights", "## attention", "## next steps", "hint: configure Kimi API">>

\* the template of the server; it names the period only
generateMockReport(type, startDate, endDate) ==
    <<"## summary", periodWord(type), startDate, endDate,
      "## highlights", "## attention", "## next steps">>

\* what the completion API does with a request: it answers with a success
\* status and a content (possibly none), with another status, or not at all
ApiReplies ==
    {[kind |-> "ok", content |-> <<"## report A">>],
     [kind |-> "ok", content |-> <<"## report B">>],
     [kind |-> "ok", content |-> NullStr],
     [kind |-> "status", content |-> NullStr],
     [kind |-> "throw", content |-> NullStr]}

\* a || b on strings
OrElse(a, b) == IF Truthy(a) THEN a ELSE b

\* callKimiAPI of the server that hands on whatever the reply holds
callKimiAPINoFallback(kimiApiKey, reply, type, startDate, endDate) ==
    IF ~kimiApiKey
    THEN generateMockReport(type, startDate, endDate)
    ELSE reply.content

\* callKimiAPI of the server
callKimiAPI(kimiApiKey, reply, type, startDate, endDate) ==
    IF ~kimiApiKey
    THEN generateMockReport(type, startDate, endDate)
    ELSE IF reply.kind = "throw"
    THEN generateMockReport(type, startDate, endDate)
    ELSE IF reply.kind # "ok"
    THEN generateMockReport(type, startDate, endDate)
    ELSE OrElse(reply.content, generateMockReport(type, startDate, endDate))

\* the rows of review_items of a user in a period
itemsOfPeriod(userId, startDate, endDate) ==
    SelectSeq(remoteItems,
              LAMBDA row : /\ row.user_id = userId
                           /\ StrLe(startDate, row.record_date)
                           /\ StrLe(row.record_date, endDate))

\* getItems of the client, signed in: the rows the policies show the user, or
\* nothing when the query fails
getItemsRemote(userId, startDate, endDate, queryError) ==
    IF queryError
    THEN <<>>
    ELSE IF Truthy(startDate) /\ Truthy(endDate)
    THEN itemsOfPeriod(userId, startDate, endDate)
    ELSE SelectSeq(remoteItems, LAMBDA row : row.user_id = userId)

\* getItems of the client
getItems(startDate, endDate, queryError) ==
    IF isGuest
    THEN getItemsGuest(getLocalItems, startDate, endDate)
    ELSE IF session = NoSession
    THEN getLocalItems
    ELSE getItemsRemote(session[1].user, startDate, endDate, queryError)

keyOf(row) == <<row.user_id, row.report_type, row.start_date, row.end_date>>

\* select content from review_reports where the four columns match, .single()
cachedRows(table, key) == {i \in DOMAIN table : keyOf(table[i]) = key}

\* the cache lookup that finds nothing
cacheLookupMiss(table, key) == <<>>

\* the cache lookup: the row when exactly one matches, else none
cacheLookup(table, key) ==
    IF Cardinality(cachedRows(table, key)) = 1
    THEN <<table[CHOOSE i \in cachedRows(table, key) : TRUE]>>
    ELSE <<>>

\* an insert into a table without the constraint unique_user_period
insertReportAlways(table, row) == Append(table, row)

\* insert into review_reports: unique_user_period rejects a second row of a key
insertReport(table, row) ==
    IF cachedRows(table, keyOf(row)) # {}
    THEN table
    ELSE Append(table, row)

Returned(g, value) == [g EXCEPT !.pc = "done", !.result = "returned", !.value = value]

Responds(g, status) == [g EXCEPT !.pc = "respond", !.status = status]

mockOf(g) == getMockReport(g.type, g.startDate, g.endDate, Len(g.items))

\* generateReport is called: the items, then the choice of the route
GenerateReport(p, type, startDate, endDate, queryError) ==
    /\ gen[p].pc = "idle"
    /\ gen' = [gen EXCEPT ![p] =
                 [gen[p] EXCEPT !.pc = IF env.viteKimiApiKey THEN "kimi" ELSE "fetch",
                                !.type = type,
                                !.startDate = startDate,
                                !.endDate = endDate,
                                !.items = getItems(startDate, endDate, queryError),
                                !.isGuest = isGuest,
                                !.token = IF session = NoSession THEN <<>>
                                          ELSE session[1].access_token]]
    /\ UNCHANGED <<clock, storageVars, configured, last, before, session, remoteItems, mig,
                   authVars, reports, env, gatewayVars, pageVars>>

\* the client's own callKimiAPI and the catch around it
ClientKimi(p, reply) ==
    /\ gen[p].pc = "kimi"
    /\ gen' = [gen EXCEPT ![p] =
                 [Returned(gen[p], IF reply.kind = "ok"
                                   THEN OrElse(reply.content, mockOf(gen[p]))
                                   ELSE mockOf(gen[p]))
                    EXCEPT !.apiCalls = 1, !.apiFailed = reply.kind # "ok"]]
    /\ UNCHANGED <<clock, storageVars, configured, last, before, session, remoteItems, mig,
                   authVars, reports, env, gatewayVars, pageVars>>

\* the rows of the key of a request, as the handler reads them
keyOfRequest(g) == <<getUserIdFromToken(g.token), g.type, g.startDate, g.endDate>>

\* the fetch of /api/review/generate and the handler up to the cache lookup
ServerReceive(p, fetchThrows) ==
    /\ gen[p].pc = "fetch"
    /\ LET g == gen[p]
           cachedReport == cacheLookup(reports, keyOfRequest(g))
       IN  gen' = [gen EXCEPT ![p] =
                     IF fetchThrows
                     THEN Returned(g, mockOf(g))
                     ELSE IF g.type = "" \/ ~Truthy(g.startDate) \/ ~Truthy(g.endDate)
                     THEN Responds(g, 400)
                     ELSE IF g.isGuest
                     THEN [g EXCEPT !.pc = "callKimi"]
                     ELSE IF getUserIdFromToken(g.token) = ""
                     THEN Responds(g, 401)
                     ELSE IF cachedReport # <<>>
                     THEN [Responds(g, 200) EXCEPT
                             !.content = cachedReport[1].content,
                             !.cached = TRUE,
                             !.seen = Len(itemsOfPeriod(getUserIdFromToken(g.token),
                                                        g.startDate, g.endDate))]
                     ELSE [g EXCEPT !.pc = "fetchItems"]]
    /\ UNCHANGED <<clock, storageVars, configured, last, before, session, remoteItems, mig,
                   authVars, reports, env, gatewayVars, pageVars>>

\* the handler reads the items of the period
ServerFetchItems(p, error) ==
    /\ gen[p].pc = "fetchItems"
    /\ gen' = [gen EXCEPT ![p] =
                 IF error
                 THEN Responds(gen[p], 500)
                 ELSE [gen[p] EXCEPT
                         !.pc = "callKimi",
                         !.seen = Len(itemsOfPeriod(getUserIdFromToken(gen[p].token),
                                                    gen[p].startDate, gen[p].endDate))]]
    /\ UNCHANGED <<clock, storageVars, configured, last, before, session, remoteItems, mig,
                   authVars, reports, env, gatewayVars, pageVars>>

\* the handler calls callKimiAPI; a guest's report is answered at once
ServerCallKimi(p, reply) ==
    /\ gen[p].pc = "callKimi"
    /\ LET g == gen[p]
           content == callKimiAPI(env.kimiApiKey, reply, g.type, g.startDate, g.endDate)
           h == [g EXCEPT !.content = content,
                          !.apiCalls = IF env.kimiApiKey THEN 1 ELSE 0,
                          !.apiFailed = ~env.kimiApiKey \/ reply.kind # "ok"]
       IN  gen' = [gen EXCEPT ![p] =
                     IF g.isGuest THEN Responds(h, 200) ELSE [h EXCEPT !.pc = "insert"]]
    /\ UNCHANGED <<clock, storageVars, configured, last, before, session, remoteItems, mig,
                   authVars, reports, env, gatewayVars, pageVars>>

\* a handler that stores only what the completion API wrote
ServerInsertIfReal(p, insertError) ==
    /\ gen[p].pc = "insert"
    /\ LET g == gen[p]
           row == [user_id |-> getUserIdFromToken(g.token), report_type |-> g.type,
                   start_date |-> g.startDate, end_date |-> g.endDate,
                   content |-> g.content]
       IN  reports' = IF insertError \/ g.apiFailed THEN reports ELSE insertReport(reports, row)
    /\ gen' = [gen EXCEPT ![p] = Responds(gen[p], 200)]
    /\ UNCHANGED <<clock, storageVars, configured, last, before, session, remoteItems, mig,
                   authVars, env, gatewayVars, pageVars>>

\* the handler stores the report, does not look at the outcome, and answers
ServerInsert(p, insertError) ==
    /\ gen[p].pc = "insert"
    /\ LET g == gen[p]
           row == [user_id |-> getUserIdFromToken(g.token), report_type |-> g.type,
                   start_date |-> g.startDate, end_date |-> g.endDate,
                   content |-> g.content]
       IN  reports' = IF insertError THEN reports ELSE insertReport(reports, row)
    /\ gen' = [gen EXCEPT ![p] = Responds(gen[p], 200)]
    /\ UNCHANGED <<clock, storageVars, configured, last, before, session, remoteItems, mig,
                   authVars, env, gatewayVars, pageVars>>

\* the client gets the response, or the fetch throws instead
ClientReturn(p, fetchThrows) ==
    /\ gen[p].pc = "respond"
    /\ gen' = [gen EXCEPT ![p] =
                 IF ~fetchThrows /\ gen[p].status = 200
                 THEN Returned(gen[p], gen[p].content)
                 ELSE Returned(gen[p], mockOf(gen[p]))]
    /\ UNCHANGED <<clock, storageVars, configured, last, before, session, remoteItems, mig,
                   authVars, reports, env, gatewayVars, pageVars>>

\* POST /api/items of the signed-in user
ItemsPost(content, date) ==
    /\ session # NoSession
    /\ Len(remoteItems) < MaxRemote
    /\ Truthy(content)
    /\ Truthy(date)
    /\ remoteItems' = Append(remoteItems,
                             [user_id |-> getUserIdFromToken(session[1].access_token),
                              content |-> content, record_date |-> date,
                              created_at |-> clock])
    /\ UNCHANGED <<clock, storageVars, configured, last, before, session, mig,
                   authVars, reportVars, gatewayVars, pageVars>>

\* DELETE /api/items of the signed-in user, on the k-th row
ItemsDelete(k) ==
    /\ session # NoSession
    /\ k \in DOMAIN remoteItems
    /\ remoteItems[k].user_id = getUserIdFromToken(session[1].access_token)
    /\ remoteItems' = SubSeq(remoteItems, 1, k - 1) \o SubSeq(remoteItems, k + 1, Len(remoteItems))
    /\ UNCHANGED <<clock, storageVars, configured, last, before, session, mig,
                   authVars, reportVars, gatewayVars, pageVars>>

ReportTypes == {"week", "month"}

ReportStart == <<0, 2>>

ReportEnd == <<1, 0>>

InitReport ==
    /\ clock = 1
    /\ lsItems = Absent
    /\ lsUser = Absent
    /\ configured = TRUE
    /\ \/ lsGuest = Present("true") /\ session = NoSession
       \/ lsGuest = Absent /\ session \in {NoSession, sessionOf("u1")}
    /\ last = NoOp
    /\ before = <<>>
    /\ remoteItems = <<>>
    /\ mig = MigIdle
    /\ InitAuthEmpty
    /\ reports = <<>>
    /\ gen = [p \in Procs |-> ReportIdle]
    /\ env \in [kimiApiKey : BOOLEAN, viteKimiApiKey : BOOLEAN]
    /\ InitGatewayEmpty
    /\ InitPageEmpty

NextReport ==
    \/ \E p \in Procs, type \in ReportTypes, queryError \in BOOLEAN :
          GenerateReport(p, type, ReportStart, ReportEnd, queryError)
    \/ \E p \in Procs, reply \in ApiReplies : ClientKimi(p, reply)
    \/ \E p \in Procs, fetchThrows \in BOOLEAN : ServerReceive(p, fetchThrows)
    \/ \E p \in Procs, error \in BOOLEAN : ServerFetchItems(p, error)
    \/ \E p \in Procs, reply \in ApiReplies : ServerCallKimi(p, reply)
    \/ \E p \in Procs, insertError \in BOOLEAN : ServerInsert(p, insertError)
    \/ \E p \in Procs, fetchThrows \in BOOLEAN : ClientReturn(p, fetchThrows)
    \/ ItemsPost(<<"a">>, ReportStart)
    \/ \E k \in 1..MaxRemote : ItemsDelete(k)

SpecReport == InitReport /\ [][NextReport]_vars

\* ---- the handler alone, for a signed-in user, with inserts that succeed ----

InitReportServer ==
    /\ clock = 1
    /\ lsItems = Absent
    /\ lsUser = Absent
    /\ configured = TRUE
    /\ lsGuest = Absent
    /\ session = sessionOf("u1")
    /\ last = NoOp
    /\ before = <<>>
    /\ remoteItems = <<>>
    /\ mig = MigIdle
    /\ InitAuthEmpty
    /\ reports = <<>>
    /\ gen = [p \in Procs |-> ReportIdle]
    /\ env \in [kimiApiKey : BOOLEAN, viteKimiApiKey : {FALSE}]
    /\ InitGatewayEmpty
    /\ InitPageEmpty

NextReportServer ==
    \/ \E p \in Procs, type \in ReportTypes :
          GenerateReport(p, type, ReportStart, ReportEnd, FALSE)
    \/ \E p \in Procs : ServerReceive(p, FALSE)
    \/ \E p \in Procs, error \in BOOLEAN : ServerFetchItems(p, error)
    \/ \E p \in Procs, reply \in ApiReplies : ServerCallKimi(p, reply)
    \/ \E p \in Procs : ServerInsert(p, FALSE)
    \/ \E p \in Procs, fetchThrows \in BOOLEAN : ClientReturn(p, fetchThrows)
    \/ ItemsPost(<<"a">>, ReportStart)

SpecReportServer == InitReportServer /\ [][NextReportServer]_vars

(***************************************************************************)
(* The item gateway /api/items: GET, POST and DELETE, for any caller, and  *)
(* what DataService makes of the response.  Rows carry the id the table    *)
(* gives them; an id is never given twice.                                 *)
(***************************************************************************)
\* the Authorization headers callers send: the token of a user, none, and a
\* token whose payload has no sub
CallerTokens == {tokenOf(u) : u \in Users} \cup {<<>>, tokenOf("")}

Answers(r, status) == [r EXCEPT !.pc = "done", !.status = status]

\* .gte('record_date', startDate) and .lte('record_date', endDate), each only
\* when its parameter is given
inRange(row, startDate, endDate) ==
    /\ Truthy(startDate) => StrLe(startDate, row.record_date)
    /\ Truthy(endDate) => StrLe(row.record_date, endDate)

\* a query that leaves out the owner
selectItemsOfAll(userId, startDate, endDate) ==
    SelectSeq(remoteItems, LAMBDA row : inRange(row, startDate, endDate))

\* select ... from review_items where user_id = userId and the range
selectItems(userId, startDate, endDate) ==
    SelectSeq(remoteItems, LAMBDA row : row.user_id = userId /\ inRange(row, startDate, endDate))

\* the frontend format of a row
toFrontend(row, userId) ==
    [id |-> row.id, content |-> row.content, date |-> row.record_date,
     createdAt |-> row.created_at, user_id |-> userId]

\* GET /api/items
ItemsGet(p, token, startDate, endDate, error) ==
    /\ req[p].pc = "idle"
    /\ LET userId == getUserIdFromToken(token)
           r == [req[p] EXCEPT !.method = "GET", !.token = token, !.userId = userId]
           data == selectItems(userId, startDate, endDate)
       IN  req' = [req EXCEPT ![p] =
                     IF userId = ""
                     THEN Answers(r, 401)
                     ELSE IF error
                     THEN Answers(r, 500)
                     ELSE [Answers(r, 200) EXCEPT
                             !.items = [k \in DOMAIN data |-> toFrontend(data[k], userId)]]]
    /\ UNCHANGED <<clock, storageVars, configured, last, before, session, remoteItems, mig,
                   authVars, reportVars, nextId, pageVars>>

\* POST /api/items
ItemsCreate(p, token, content, date, error) ==
    /\ req[p].pc = "idle"
    /\ nextId <= MaxRowIds
    /\ LET userId == getUserIdFromToken(token)
           r == [req[p] EXCEPT !.method = "POST", !.token = token, !.userId = userId]
           row == [id |-> nextId, user_id |-> userId, content |-> content,
                   record_date |-> date, created_at |-> clock]
       IN  IF userId = ""
           THEN /\ req' = [req EXCEPT ![p] = Answers(r, 401)]
                /\ UNCHANGED <<remoteItems, nextId>>
           ELSE IF ~Truthy(content) \/ ~Truthy(date)
           THEN /\ req' = [req EXCEPT ![p] = Answers(r, 400)]
                /\ UNCHANGED <<remoteItems, nextId>>
           ELSE IF error
           THEN /\ req' = [req EXCEPT ![p] = Answers(r, 500)]
                /\ UNCHANGED <<remoteItems, nextId>>
           ELSE /\ req' = [req EXCEPT ![p] =
                             [Answers(r, 201) EXCEPT !.id = row.id,
                                                     !.items = <<toFrontend(row, userId)>>]]
                /\ remoteItems' = Append(remoteItems, row)
                /\ nextId' = nextId + 1
    /\ UNCHANGED <<clock, storageVars, configured, last, before, session, mig,
                   authVars, reportVars, pageVars>>

\* select user_id from review_items where id = ..., .single()
rowsWithId(id) == {k \in DOMAIN remoteItems : remoteItems[k].id = id}

\* an ownership test that lets every caller through
ownsAny(existingItem, userId) == TRUE

\* existingItem.user_id === userId
owns(existingItem, userId) == existingItem.user_id = userId

\* DELETE /api/items up to the ownership test; id 0 stands for no id, and the
\* select is taken to succeed (when it fails the answer is 404 as well)
ItemsDeleteCheck(p, token, id) ==
    /\ req[p].pc = "idle"
    /\ LET userId == getUserIdFromToken(token)
           r == [req[p] EXCEPT !.method = "DELETE", !.token = token, !.userId = userId, !.id = id]
       IN  req' = [req EXCEPT ![p] =
                     IF userId = ""
                     THEN Answers(r, 401)
                     ELSE IF id = 0
                     THEN Answers(r, 400)
                     ELSE IF rowsWithId(id) = {}
                     THEN Answers(r, 404)
                     ELSE IF ~owns(remoteItems[CHOOSE k \in rowsWithId(id) : TRUE], userId)
                     THEN Answers(r, 403)
                     ELSE [r EXCEPT !.pc = "delete"]]
    /\ UNCHANGED <<clock, storageVars, configured, last, before, session, remoteItems, mig,
                   authVars, reportVars, nextId, pageVars>>

\* delete from review_items where id = ...
ItemsDeleteRow(p, error) ==
    /\ req[p].pc = "delete"
    /\ remoteItems' = IF error
                      THEN remoteItems
                      ELSE SelectSeq(remoteItems, LAMBDA row : row.id # req[p].id)
    /\ req' = [req EXCEPT ![p] = Answers(req[p], IF error THEN 500 ELSE 200)]
    /\ UNCHANGED <<clock, storageVars, configured, last, before, session, mig,
                   authVars, reportVars, nextId, pageVars>>

\* response.ok
ok(status) == status >= 200 /\ status <= 299

\* DataService gets the response and the slot is free again: getItems
\* returns also when the response is not ok, addItem and deleteItem throw then
ItemsReturn(p) ==
    /\ req[p].pc = "done"
    /\ last' = Done(IF req[p].method = "GET" THEN "getItems"
                    ELSE IF req[p].method = "POST" THEN "addItem" ELSE "deleteItem",
                    <<>>, 0,
                    IF req[p].method = "GET" \/ ok(req[p].status) THEN "return" ELSE "throw",
                    <<>>, 0, 1)
    /\ req' = [req EXCEPT ![p] = ItemsIdle]
    /\ UNCHANGED <<clock, storageVars, configured, before, session, remoteItems, mig,
                   authVars, reportVars, nextId, pageVars>>

InitItems ==
    /\ clock = 1
    /\ lsItems = Absent
    /\ lsUser = Absent
    /\ lsGuest = Absent
    /\ configured = TRUE
    /\ last = NoOp
    /\ before = <<>>
    /\ session = NoSession
    /\ remoteItems = <<>>
    /\ mig = MigIdle
    /\ InitAuthEmpty
    /\ InitReportEmpty
    /\ InitGatewayEmpty
    /\ InitPageEmpty

NextItems ==
    \/ \E p \in Procs, token \in CallerTokens, s \in {NullStr, <<1, 0>>}, e \in {NullStr, <<0, 2>>},
          error \in BOOLEAN : ItemsGet(p, token, s, e, error)
    \/ \E p \in Procs, token \in CallerTokens, content \in {NullStr, <<"a">>},
          date \in Dates \cup {NullStr}, error \in BOOLEAN :
          ItemsCreate(p, token, content, date, error)
    \/ \E p \in Procs, token \in CallerTokens, id \in 0..MaxRowIds :
          ItemsDeleteCheck(p, token, id)
    \/ \E p \in Procs, error \in BOOLEAN : ItemsDeleteRow(p, error)
    \/ \E p \in Procs : ItemsReturn(p)

SpecItems == InitItems /\ [][NextItems]_vars

(***************************************************************************)
(* Data Service, logged-in branch: the calls on review_items of a caller   *)
(* who is not in guest mode.                                               *)
(***************************************************************************)
userOf(s) == s[1].user

\* the rows the row level security of review_items lets the caller touch
ownRows(userId) == {k \in DOMAIN remoteItems : remoteItems[k].user_id = userId}

\* getItems past the guest branch: the local items without a session, else
\* the caller's rows, and [] on an error of the query
GetItemsRemote(startDate, endDate, error) ==
    /\ ~isGuest
    /\ LET data == IF Truthy(startDate) /\ Truthy(endDate)
                   THEN selectItems(userOf(session), startDate, endDate)
                   ELSE selectItems(userOf(session), NullStr, NullStr)
       IN  last' = IF session = NoSession
                   THEN Done("getItems", <<startDate, endDate>>, clock, "return",
                             getLocalItems, 0, 0)
                   ELSE IF error
                   THEN Done("getItems", <<startDate, endDate>>, clock, "return", <<>>, 0, 1)
                   ELSE Done("getItems", <<startDate, endDate>>, clock, "return",
                             [k \in DOMAIN data |-> toFrontend(data[k], data[k].user_id)], 0, 1)
    /\ before' = <<>>
    /\ UNCHANGED <<clock, storageVars, configured, session, remoteItems, mig,
                   authVars, reportVars, gatewayVars, pageVars>>

\* addItem past the guest branch: the insert into review_items
AddItemRemote(content, date, error) ==
    /\ ~isGuest
    /\ nextId <= MaxRowIds
    /\ IF session = NoSession
       THEN /\ last' = Done("addItem", <<content, date>>, clock, "throw",
                            "Not authenticated", 0, 0)
            /\ UNCHANGED <<remoteItems, nextId>>
       ELSE IF error
       THEN /\ last' = Done("addItem", <<content, date>>, clock, "throw",
                            "Failed to add item", 0, 1)
            /\ UNCHANGED <<remoteItems, nextId>>
       ELSE LET row == [id |-> nextId, user_id |-> userOf(session), content |-> Trim(content),
                        record_date |-> date, created_at |-> clock]
            IN  /\ remoteItems' = Append(remoteItems, row)
                /\ nextId' = nextId + 1
                /\ last' = Done("addItem", <<content, date>>, clock, "return",
                                toFrontend(row, row.user_id), 1, 1)
    /\ before' = <<>>
    /\ UNCHANGED <<clock, storageVars, configured, session, mig,
                   authVars, reportVars, req, pageVars>>

\* deleteItem that dispatches no event after the delete
DeleteItemRemoteQuiet(id, error) ==
    /\ ~isGuest
    /\ IF session = NoSession
       THEN /\ last' = Done("deleteItem", <<id>>, clock, "throw", "Not authenticated", 0, 0)
            /\ UNCHANGED remoteItems
       ELSE IF error
       THEN /\ last' = Done("deleteItem", <<id>>, clock, "throw", "Failed to delete item", 0, 1)
            /\ UNCHANGED remoteItems
       ELSE /\ remoteItems' = SelectSeq(remoteItems,
                                 LAMBDA row : ~(row.id = id /\ row.user_id = userOf(session)))
            /\ last' = Done("deleteItem", <<id>>, clock, "return", <<>>, 0, 1)
    /\ before' = <<>>
    /\ UNCHANGED <<clock, storageVars, configured, session, mig,
                   authVars, reportVars, gatewayVars, pageVars>>

\* deleteItem past the guest branch: delete from review_items where id = id
DeleteItemRemote(id, error) ==
    /\ ~isGuest
    /\ IF session = NoSession
       THEN /\ last' = Done("deleteItem", <<id>>, clock, "throw", "Not authenticated", 0, 0)
            /\ UNCHANGED remoteItems
       ELSE IF error
       THEN /\ last' = Done("deleteItem", <<id>>, clock, "throw", "Failed to delete item", 0, 1)
            /\ UNCHANGED remoteItems
       ELSE /\ remoteItems' = SelectSeq(remoteItems,
                                 LAMBDA row : ~(row.id = id /\ row.user_id = userOf(session)))
            /\ last' = Done("deleteItem", <<id>>, clock, "return", <<>>, 1, 1)
    /\ before' = <<>>
    /\ UNCHANGED <<clock, storageVars, configured, session, mig,
                   authVars, reportVars, gatewayVars, pageVars>>

\* updateItem past the guest branch: update review_items ... where id = id,
\* .select().single(); no row of the caller with the id is an error
UpdateItemRemote(id, content, date, error) ==
    /\ ~isGuest
    /\ IF session = NoSession
       THEN /\ last' = Done("updateItem", <<id, content, date>>, clock, "throw",
                            "Not authenticated", 0, 0)
            /\ UNCHANGED remoteItems
       ELSE LET hit == {k \in ownRows(userOf(session)) : remoteItems[k].id = id}
            IN  IF error \/ Cardinality(hit) # 1
                THEN /\ last' = Done("updateItem", <<id, content, date>>, clock, "throw",
                                     "Failed to update item", 0, 1)
                     /\ UNCHANGED remoteItems
                ELSE LET k == CHOOSE k \in hit : TRUE
                         row == [remoteItems[k] EXCEPT !.content = Trim(content),
                                                       !.record_date = date]
                     IN  /\ remoteItems' = [remoteItems EXCEPT ![k] = row]
                         /\ last' = Done("updateItem", <<id, content, date>>, clock, "return",
                                         toFrontend(row, row.user_id), 1, 1)
    /\ before' = <<>>
    /\ UNCHANGED <<clock, storageVars, configured, session, mig,
                   authVars, reportVars, gatewayVars, pageVars>>

RemoteRow ==
    [id |-> 1, user_id |-> "u1", content |-> <<"r">>, record_date |-> <<1, 0>>, created_at |-> 1]

NoReadings == [k \in 1..2 |-> 0]

InitRouting ==
    /\ clock = 1
    /\ lsItems = Absent
    /\ lsUser = Absent
    /\ lsGuest \in {Absent, Present("true")}
    /\ configured \in BOOLEAN
    /\ last = NoOp
    /\ before = <<>>
    /\ session \in {NoSession, sessionOf("u1")}
    /\ remoteItems = <<RemoteRow>>
    /\ mig = MigIdle
    /\ InitAuthEmpty
    /\ InitReportEmpty
    /\ nextId = 2
    /\ req = [p \in Procs |-> ItemsIdle]
    /\ InitPageEmpty

NextRouting ==
    \/ Tick
    \/ AddItem(<<"a">>, <<1, 0>>, NoReadings)
    \/ \E s \in {NullStr, <<1, 0>>} : GetItems(s, s)
    \/ \E id \in 1..MaxClock : DeleteItem(id)
    \/ \E id \in 1..MaxClock : UpdateItem(id, <<" ", "b", " ">>, <<1, 0>>)
    \/ \E error \in BOOLEAN : AddItemRemote(<<"a">>, <<1, 0>>, error)
    \/ \E s \in {NullStr, <<1, 0>>}, error \in BOOLEAN : GetItemsRemote(s, s, error)
    \/ \E id \in 1..MaxRowIds, error \in BOOLEAN : DeleteItemRemote(id, error)
    \/ \E id \in 1..MaxRowIds, error \in BOOLEAN :
          UpdateItemRemote(id, <<" ", "b", " ">>, <<1, 0>>, error)

SpecRouting == InitRouting /\ [][NextRouting]_vars

\* every mutating operation of the Data Service, in both modes, with the
\* migration of the guest items and its handler
NextMutations ==
    \/ AddItem(<<"a">>, <<1, 0>>, NoReadings)
    \/ \E id \in 1..2 : DeleteItem(id)
    \/ \E id \in 1..2 : UpdateItem(id, <<" ", "b", " ">>, <<1, 0>>)
    \/ \E error \in BOOLEAN : AddItemRemote(<<"a">>, <<1, 0>>, error)
    \/ \E id \in 1..2, error \in BOOLEAN : DeleteItemRemote(id, error)
    \/ \E id \in 1..2, error \in BOOLEAN :
          UpdateItemRemote(id, <<" ", "b", " ">>, <<1, 0>>, error)
    \/ NextMigrate

SpecMutations == InitRouting /\ [][NextMutations]_vars

(***************************************************************************)
(* AddItemDialog.handleSubmit in remote mode: one addItem per filled       *)
(* category, all begun before any is awaited, and Promise.all over them.   *)
(***************************************************************************)
MaxSubmits == 2

\* handleSubmit up to the await: the calls are pushed; an addItem without a
\* session rejects, the others have their insert in flight
SubmitStart(contents, date) ==
    /\ ~isGuest
    /\ sub.pc # "waiting"
    /\ \A k \in DOMAIN sub.state : sub.state[k] # "sent"
    /\ sub.count < MaxSubmits
    /\ submitCalls(contents) # <<>>
    /\ LET calls == submitCalls(contents)
       IN  sub' = [pc |-> "waiting", contents |-> contents, calls |-> calls, date |-> date,
                   state |-> [k \in DOMAIN calls |->
                                 IF session = NoSession THEN "failed" ELSE "sent"],
                   rows |-> [k \in DOMAIN calls |-> 0],
                   result |-> "none", events |-> 0, count |-> sub.count + 1]
    /\ UNCHANGED <<clock, storageVars, configured, last, before, session, remoteItems, mig,
                   authVars, reportVars, gatewayVars, view, lastCode, add, stats, auth, iss>>

\* the insert of call k is answered: the row is stored and the event
\* dispatched, or addItem throws 'Failed to add item'
SubmitInsert(k, error) ==
    /\ k \in DOMAIN sub.state
    /\ sub.state[k] = "sent"
    /\ IF error
       THEN /\ sub' = [sub EXCEPT !.state[k] = "failed"]
            /\ UNCHANGED <<remoteItems, nextId>>
       ELSE LET row == [id |-> nextId, user_id |-> userOf(session),
                        content |-> Trim(sub.calls[k]), record_date |-> sub.date,
                        created_at |-> clock]
            IN  /\ remoteItems' = Append(remoteItems, row)
                /\ nextId' = nextId + 1
                /\ sub' = [sub EXCEPT !.state[k] = "stored", !.rows[k] = nextId,
                                      !.events = @ + 1]
    /\ UNCHANGED <<clock, storageVars, configured, last, before, session, mig,
                   authVars, reportVars, req, view, lastCode, add, stats, auth, iss>>

\* a catch that takes back the rows the other calls have stored
SubmitSettleRollback ==
    /\ sub.pc = "waiting"
    /\ IF \E k \in DOMAIN sub.state : sub.state[k] = "failed"
       THEN /\ sub' = [sub EXCEPT !.pc = "settled", !.result = "failed"]
            /\ remoteItems' = SelectSeq(remoteItems,
                                 LAMBDA row : \A k \in DOMAIN sub.rows : sub.rows[k] # row.id)
       ELSE /\ \A k \in DOMAIN sub.state : sub.state[k] = "stored"
            /\ sub' = [sub EXCEPT !.pc = "settled", !.result = "ok", !.events = @ + 1]
            /\ UNCHANGED remoteItems
    /\ UNCHANGED <<clock, storageVars, configured, last, before, session, mig,
                   authVars, reportVars, gatewayVars, view, lastCode, add, stats, auth, iss>>

\* Promise.all settles: rejected once a call has thrown (the catch alerts),
\* fulfilled when every call has returned (the event, the reset, onClose)
SubmitSettle ==
    /\ sub.pc = "waiting"
    /\ IF \E k \in DOMAIN sub.state : sub.state[k] = "failed"
       THEN /\ sub' = [sub EXCEPT !.pc = "settled", !.result = "failed"]
            /\ UNCHANGED remoteItems
       ELSE /\ \A k \in DOMAIN sub.state : sub.state[k] = "stored"
            /\ sub' = [sub EXCEPT !.pc = "settled", !.result = "ok", !.events = @ + 1]
            /\ UNCHANGED remoteItems
    /\ UNCHANGED <<clock, storageVars, configured, last, before, session, mig,
                   authVars, reportVars, gatewayVars, view, lastCode, add, stats, auth, iss>>

Fields == {<<>>, <<" ">>, <<"x">>}

InitSubmitRemote ==
    /\ clock = 1
    /\ lsItems = Absent
    /\ lsUser = Absent
    /\ lsGuest = Absent
    /\ configured = TRUE
    /\ last = NoOp
    /\ before = <<>>
    /\ session \in {NoSession, sessionOf("u1")}
    /\ remoteItems = <<>>
    /\ mig = MigIdle
    /\ InitAuthEmpty
    /\ InitReportEmpty
    /\ InitGatewayEmpty
    /\ InitPageEmpty

NextSubmitRemote ==
    \/ \E b \in Fields, e \in Fields, c \in Fields :
          SubmitStart([basic |-> b, energy |-> e, create |-> c], <<1, 0>>)
    \/ \E k \in 1..3, error \in BOOLEAN : SubmitInsert(k, error)
    \/ SubmitSettle

SpecSubmitRemote == InitSubmitRemote /\ [][NextSubmitRemote]_vars

(***************************************************************************)
(* The profile page over the guest store: it loads the stats when the      *)
(* 'storage-update' event is dispatched, inside the call that saves.       *)
(***************************************************************************)
msPerDay == 1000 * 60 * 60 * 24

\* Math.ceil(n / d) for n >= 0
CeilDiv(n, d) == (n + d - 1) \div d

Abs(n) == IF n < 0 THEN 0 - n ELSE n

\* getStats, guest branch, over the store as it is at the call
getStatsGuest(items, user, now) ==
    LET userData == userDataOf(user)
    IN  [loaded |-> TRUE,
         totalDays |-> IF TruthyNum(userData.firstRecordDate)
                       THEN CeilDiv(Abs(now - userData.firstRecordDate), msPerDay)
                       ELSE 0,
         totalItems |-> Len(items),
         firstRecordDate |-> userData.firstRecordDate]

\* the profile page is mounted: loadStats
LoadStats ==
    /\ isGuest
    /\ add.pc = "idle"
    /\ stats' = getStatsGuest(getLocalItems, lsUser, clock)
    /\ UNCHANGED <<clock, storageVars, configured, last, before, session, remoteItems, mig,
                   authVars, reportVars, gatewayVars, view, lastCode, add, auth, iss, sub>>

\* addItem, guest branch, up to saveLocalItems: the item is stored and the
\* event is dispatched, so the listener of the profile page runs getStats
\* before addItem goes on
AddItemSave(content, date, r) ==
    /\ isGuest
    /\ add.pc = "idle"
    /\ Len(getLocalItems) < MaxItems
    /\ LET newItem == newItemOf(Store, content, date, r)
       IN  /\ newItem.createdAt + r[2] <= MaxClock
           /\ lsItems' = Present(Append(getLocalItems, newItem))
           /\ clock' = newItem.createdAt
           /\ stats' = getStatsGuest(Append(getLocalItems, newItem), lsUser, newItem.createdAt)
           /\ add' = [pc |-> "saved", content |-> content, date |-> date,
                      item |-> newItem, r |-> r]
    /\ UNCHANGED <<lsUser, lsGuest, configured, last, before, session, remoteItems, mig,
                   authVars, reportVars, gatewayVars, view, lastCode, auth, iss, sub>>

\* addItem, guest branch, after saveLocalItems: firstRecordDate, then return
AddItemStamp ==
    /\ add.pc = "saved"
    /\ LET userData == userDataOf(lsUser)
           t3 == clock + add.r[2]
       IN  IF ~TruthyNum(userData.firstRecordDate)
           THEN /\ lsUser' = Present([firstRecordDate |-> t3])
                /\ clock' = t3
           ELSE UNCHANGED <<lsUser, clock>>
    /\ last' = Done("addItem", <<add.content, add.date>>, add.item.id, "return", add.item, 1, 0)
    /\ before' = <<>>
    /\ add' = AddIdle
    /\ UNCHANGED <<lsItems, lsGuest, configured, session, remoteItems, mig,
                   authVars, reportVars, gatewayVars, view, lastCode, stats, auth, iss, sub>>

\* deleteItem, guest branch, with the listener of the profile page
DeleteItemSeen(id) ==
    /\ isGuest
    /\ add.pc = "idle"
    /\ lsItems' = Present(withoutId(getLocalItems, id))
    /\ stats' = getStatsGuest(withoutId(getLocalItems, id), lsUser, clock)
    /\ last' = Done("deleteItem", <<id>>, clock, "return", <<>>, 1, 0)
    /\ before' = <<>>
    /\ UNCHANGED <<clock, lsUser, lsGuest, configured, session, remoteItems, mig,
                   authVars, reportVars, gatewayVars, view, lastCode, add, auth, iss, sub>>

TickIdle == add.pc = "idle" /\ Tick

NextStats ==
    \/ TickIdle
    \/ LoadStats
    \/ \E content \in Texts, date \in Dates, r \in Readings : AddItemSave(content, date, r)
    \/ AddItemStamp
    \/ \E id \in 1..MaxClock : DeleteItemSeen(id)

SpecStats == InitGuest /\ [][NextStats]_vars

(***************************************************************************)
(* The AuthProvider: guest mode entry, the arrival of a session, logout.   *)
(***************************************************************************)
\* loginAsGuest
LoginAsGuest ==
    /\ auth' = [auth EXCEPT !.isGuest = TRUE]
    /\ lsGuest' = Present("true")
    /\ last' = Done("loginAsGuest", <<>>, clock, "return", <<>>, 0, 0)
    /\ UNCHANGED <<clock, lsItems, lsUser, configured, before, session, remoteItems, mig,
                   authVars, reportVars, gatewayVars, view, lastCode, add, stats, iss, sub>>

\* onAuthStateChange with a session, after a login
SessionArrives(u) ==
    /\ configured
    /\ session' = sessionOf(u)
    /\ auth' = [isGuest |-> FALSE, user |-> <<u>>]
    /\ lsGuest' = Absent
    /\ last' = Done("login", <<u>>, clock, "return", <<>>, 0, 1)
    /\ UNCHANGED <<clock, lsItems, lsUser, configured, before, remoteItems, mig,
                   authVars, reportVars, gatewayVars, view, lastCode, add, stats, iss, sub>>

\* logout: signOut when there is a client, then the state and the guest
\* flag are cleared; an error of signOut is caught and leaves all as it was
Logout(signOutThrows) ==
    /\ IF configured /\ signOutThrows
       THEN /\ last' = Done("logout", <<>>, clock, "caught", <<>>, 0, 1)
            /\ UNCHANGED <<session, auth, lsGuest>>
       ELSE /\ session' = NoSession
            /\ auth' = [isGuest |-> FALSE, user |-> <<>>]
            /\ lsGuest' = Absent
            /\ last' = Done("logout", <<>>, clock, "return", <<>>, 0,
                            IF configured THEN 1 ELSE 0)
    /\ UNCHANGED <<clock, lsItems, lsUser, configured, before, remoteItems, mig,
                   authVars, reportVars, gatewayVars, view, lastCode, add, stats, iss, sub>>

InitSession ==
    /\ InitBackend
    /\ clock = 1
    /\ lsItems = Absent
    /\ lsUser = Absent
    /\ lsGuest = Absent
    /\ configured \in BOOLEAN
    /\ last = NoOp
    /\ before = <<>>

NextSession ==
    \/ LoginAsGuest
    \/ \E u \in Users : SessionArrives(u)
    \/ \E signOutThrows \in BOOLEAN : Logout(signOutThrows)
    \/ Tick
    \/ \E content \in Texts, date \in Dates : AddItem(content, date, NoReadings)
    \/ \E id \in 1..MaxClock : DeleteItem(id)

SpecSession == InitSession /\ [][NextSession]_vars

(***************************************************************************)
(* The week view: the category of an item and the items of a day.          *)
(***************************************************************************)
\* content.startsWith(tag); a tag is one token of the content
startsWith(content, tag) == Len(content) > 0 /\ content[1] = tag

\* content.replace(tag, ''): the first occurrence of the tag goes
replaceFirst(content, tag) ==
    IF \E i \in DOMAIN content : content[i] = tag
    THEN LET i == CHOOSE i \in DOMAIN content :
                     content[i] = tag /\ \A j \in 1..(i - 1) : content[j] # tag
         IN  SubSeq(content, 1, i - 1) \o SubSeq(content, i + 1, Len(content))
    ELSE content

parseItemCategory(content) ==
    IF startsWith(content, TagBasic)
    THEN [category |-> "basic", displayContent |-> Trim(replaceFirst(content, TagBasic))]
    ELSE IF startsWith(content, TagEnergy)
    THEN [category |-> "energy", displayContent |-> Trim(replaceFirst(content, TagEnergy))]
    ELSE IF startsWith(content, TagCreate)
    THEN [category |-> "create", displayContent |-> Trim(replaceFirst(content, TagCreate))]
    ELSE [category |-> "other", displayContent |-> content]

\* CATEGORY_CONFIG[category].order
categoryOrder(category) ==
    CASE category = "basic" -> 1
      [] category = "energy" -> 2
      [] category = "create" -> 3
      [] OTHER -> 4

\* a comparator that looks at the creation time only
compareByCreatedAt(a, b) == a.createdAt - b.createdAt

\* the comparator of the sort: the category first, then the creation time
compareItems(a, b) ==
    IF categoryOrder(parseItemCategory(a.content).category)
       - categoryOrder(parseItemCategory(b.content).category) # 0
    THEN categoryOrder(parseItemCategory(a.content).category)
         - categoryOrder(parseItemCategory(b.content).category)
    ELSE a.createdAt - b.createdAt

\* Array.prototype.sort is stable: an item goes behind the items that do not
\* compare greater
insertItem(sorted, x) ==
    LET k == Cardinality({i \in DOMAIN sorted : compareItems(sorted[i], x) <= 0})
    IN  SubSeq(sorted, 1, k) \o <<x>> \o SubSeq(sorted, k + 1, Len(sorted))

RECURSIVE sortItems(_)
sortItems(items) ==
    IF items = <<>>
    THEN <<>>
    ELSE insertItem(sortItems(SubSeq(items, 1, Len(items) - 1)), items[Len(items)])

\* the items of the day, sorted; a day is given as its date string
getItemsForDate(items, date) ==
    sortItems(SelectSeq(items, LAMBDA item : item.date = date))

\* what the view renders of an item
renderItem(item) ==
    [id |-> item.id,
     category |-> parseItemCategory(item.content).category,
     displayContent |-> parseItemCategory(item.content).displayContent,
     createdAt |-> item.createdAt]

\* the day is rendered
ShowDay(date) ==
    /\ view' = [view EXCEPT
                  !.date = date,
                  !.rows = [k \in DOMAIN getItemsForDate(view.items, date) |->
                              renderItem(getItemsForDate(view.items, date)[k])]]
    /\ UNCHANGED <<clock, storageVars, configured, last, before, session, remoteItems, mig,
                   authVars, reportVars, gatewayVars, lastCode, flowVars>>

\* the contents, dates and creation times of the items the view may hold
ViewContents ==
    {<<TagBasic, "a">>, <<TagEnergy, " ", "b">>, <<TagCreate, "c">>, <<"d", TagBasic>>}

ViewTimes == {1, 2}

\* the item lists the view may hold, in any order; the id is the position
ViewItemLists ==
    UNION {[1..n -> [content : ViewContents, date : Dates, createdAt : ViewTimes]] :
             n \in 0..MaxViewItems}

InitView ==
    /\ clock = 1
    /\ lsItems = Absent
    /\ lsUser = Absent
    /\ lsGuest = Absent
    /\ configured = TRUE
    /\ last = NoOp
    /\ before = <<>>
    /\ session = NoSession
    /\ remoteItems = <<>>
    /\ mig = MigIdle
    /\ InitAuthEmpty
    /\ InitReportEmpty
    /\ InitGatewayEmpty
    /\ lastCode = NoCode
    /\ InitFlowEmpty
    /\ \E list \in ViewItemLists :
          view = [items |-> [k \in DOMAIN list |->
                               [id |-> k, content |-> list[k].content, date |-> list[k].date,
                                createdAt |-> list[k].createdAt]],
                  date |-> NullStr,
                  rows |-> <<>>]

NextView == \E date \in Dates : ShowDay(date)

SpecView == InitView /\ [][NextView]_vars

(***************************************************************************)
(* generateRandomCode.  Math.random() gives a number r with 0 <= r < 1,    *)
(* here a multiple k / RandomSteps; a draw is its numerator k.             *)
(***************************************************************************)
chars == <<"A", "B", "C", "D", "E", "F", "G", "H", "J", "K", "L", "M", "N", "P", "Q", "R", "S", "T", "U", "V", "W", "X", "Y", "Z", "2", "3", "4", "5", "6", "7", "8", "9">>

RandomSteps == 64

\* chars.charAt(i): the empty string outside the string
charAt(str, i) == IF i + 1 \in DOMAIN str THEN <<str[i + 1]>> ELSE <<>>

\* an index rounded to the nearest integer
randomIndexRounded(k) == (2 * k * Len(chars) + RandomSteps) \div (2 * RandomSteps)

\* Math.floor(Math.random() * chars.length)
randomIndex(k) == (k * Len(chars)) \div RandomSteps

RECURSIVE generateRandomCode(_, _)
\* the loop of generateRandomCode with its draws, the last draw first
generateRandomCode(length, draws) ==
    IF length <= 0
    THEN <<>>
    ELSE generateRandomCode(length - 1, draws) \o charAt(chars, randomIndex(draws[length]))

\* the draws looked at: both ends of the range and the middle
Draws == {0, 3, RandomSteps \div 2 - 1, RandomSteps \div 2, RandomSteps - 1}

GenerateCode(length, draws) ==
    /\ lastCode' = [made |-> TRUE, length |-> length, code |-> generateRandomCode(length, draws)]
    /\ UNCHANGED <<clock, storageVars, configured, last, before, session, remoteItems, mig,
                   authVars, reportVars, gatewayVars, view, flowVars>>

InitCode ==
    /\ clock = 1
    /\ lsItems = Absent
    /\ lsUser = Absent
    /\ lsGuest = Absent
    /\ configured = TRUE
    /\ last = NoOp
    /\ before = <<>>
    /\ InitBackend

NextCode == \E length \in 0..MaxLen : \E draws \in [1..length -> Draws] : GenerateCode(length, draws)

SpecCode == InitCode /\ [][NextCode]_vars

(***************************************************************************)
(* POST /api/invite/create: the loop that issues invite codes.             *)
(***************************************************************************)
\* the loop goes on for one attempt more than the limit
canRetryOnceMore(success, attempts) == ~success /\ attempts <= 10

\* while (!success && attempts < 10)
canRetry(success, attempts) == ~success /\ attempts < 10

\* the for loop moves to the next unit; after the last one the response
nextUnit(it) ==
    IF it.i + 1 >= it.count
    THEN [it EXCEPT !.i = it.i + 1, !.attempts = 0, !.pc = "done", !.status = 200,
                    !.responseCount = Len(it.codes)]
    ELSE [it EXCEPT !.i = it.i + 1, !.attempts = 0]

\* a loop that answers at once when a unit has used up its attempts
afterAttemptAborting(it, inserted, code) ==
    IF inserted
    THEN nextUnit([it EXCEPT !.codes = Append(it.codes, code), !.tried = it.tried + 1])
    ELSE LET f == [it EXCEPT !.attempts = it.attempts + 1, !.tried = it.tried + 1]
         IN  IF canRetry(FALSE, f.attempts)
             THEN f
             ELSE [f EXCEPT !.failed = f.failed \cup {it.i}, !.pc = "done", !.status = 200,
                            !.responseCount = Len(f.codes)]

\* the body of the while loop after the insert, and what follows it when
\* the loop ends: the failure is logged and the next unit begins
afterAttempt(it, inserted, code) ==
    IF inserted
    THEN nextUnit([it EXCEPT !.codes = Append(it.codes, code), !.tried = it.tried + 1])
    ELSE LET f == [it EXCEPT !.attempts = it.attempts + 1, !.tried = it.tried + 1]
         IN  IF canRetry(FALSE, f.attempts)
             THEN f
             ELSE nextUnit([f EXCEPT !.failed = f.failed \cup {it.i}])

\* the request arrives: the admin key and the count
IssueRequest(keyOk, count, length) ==
    /\ iss.pc = "idle"
    /\ iss' = IF ~keyOk
              THEN [iss EXCEPT !.pc = "done", !.status = 401]
              ELSE IF count < 1 \/ count > 100
              THEN [iss EXCEPT !.pc = "done", !.status = 400, !.count = count]
              ELSE [iss EXCEPT !.pc = "loop", !.count = count, !.length = length]
    /\ UNCHANGED <<clock, storageVars, configured, last, before, session, remoteItems, mig,
                   authVars, reportVars, gatewayVars, view, lastCode, add, stats, auth, sub>>

\* one turn of the while loop: a code is drawn and its insert is answered
\* "ok", "error" or "throw"; the unique constraint on code refuses a code
\* that a row holds already
IssueAttempt(draws, answer) ==
    /\ iss.pc = "loop"
    /\ canRetry(FALSE, iss.attempts)
    /\ LET code == generateRandomCode(iss.length, draws)
           inserted == answer = "ok" /\ \A id \in DOMAIN invites : invites[id].code # code
           row == [code |-> code, is_used |-> FALSE, used_by |-> <<>>, used_at |-> 0]
       IN  IF answer = "throw"
           THEN /\ iss' = [iss EXCEPT !.pc = "done", !.status = 500, !.tried = iss.tried + 1]
                /\ UNCHANGED invites
           ELSE /\ iss' = afterAttempt(iss, inserted, code)
                /\ invites' = IF inserted THEN Append(invites, row) ELSE invites
    /\ UNCHANGED <<clock, storageVars, configured, last, before, session, remoteItems, mig,
                   accounts, profiles, lg, adm, codes, reportVars, gatewayVars,
                   view, lastCode, add, stats, auth, sub>>

MaxCount == 2

IssueLength == 2

InitIssue ==
    /\ clock = 1
    /\ lsItems = Absent
    /\ lsUser = Absent
    /\ lsGuest = Absent
    /\ configured = TRUE
    /\ last = NoOp
    /\ before = <<>>
    /\ session = NoSession
    /\ remoteItems = <<>>
    /\ mig = MigIdle
    /\ accounts = {}
    /\ invites = <<[code |-> <<"A", "A">>, is_used |-> FALSE, used_by |-> <<>>, used_at |-> 0]>>
    /\ profiles = {}
    /\ lg = [p \in Procs |-> LoginIdle]
    /\ adm = AdminIdle
    /\ codes = {}
    /\ InitReportEmpty
    /\ InitGatewayEmpty
    /\ InitPageEmpty

NextIssue ==
    \/ \E keyOk \in BOOLEAN, count \in (0..MaxCount) \cup {101} :
          IssueRequest(keyOk, count, IssueLength)
    \/ \E draws \in [1..IssueLength -> {0, 3}], answer \in {"ok", "error", "throw"} :
          IssueAttempt(draws, answer)

SpecIssue == InitIssue /\ [][NextIssue]_vars

(***************************************************************************)
(* Properties of the guest store.                                          *)
(***************************************************************************)
\* a getItems(start, end) that ran right after addItem(content, date), with
\* start <= date <= end
AfterAdd ==
    /\ last.op = "getItems"
    /\ before # <<>>
    /\ before[1] = "addItem"
    /\ Truthy(last.arg[1]) /\ Truthy(last.arg[2])
    /\ StrLe(last.arg[1], before[2][2]) /\ StrLe(before[2][2], last.arg[2])

\* C1 as stated: in guest mode addItem(content, date) followed by a getItems
\* covering the date returns an item with that very content, that date and
\* a createdAt not older than the call time of addItem.
C1_AddThenGetVerbatim ==
    AfterAdd =>
        \E i \in DOMAIN last.value :
            /\ last.value[i].content = before[2][1]
            /\ last.value[i].date = before[2][2]
            /\ last.value[i].createdAt >= before[3]

\* C1 amended: the item returned carries the content with its leading and
\* trailing whitespace removed, the date as given, and a createdAt not older
\* than the call time of addItem.
C1_AddThenGetTrimmed ==
    AfterAdd =>
        \E i \in DOMAIN last.value :
            /\ last.value[i].content = Trim(before[2][1])
            /\ last.value[i].date = before[2][2]
            /\ last.value[i].createdAt >= before[3]

C1_Witness ==
    /\ AfterAdd
    /\ Trim(before[2][1]) # before[2][1]
    /\ last.arg[2] = before[2][2]
    /\ \E i \in DOMAIN last.value : last.value[i].content = Trim(before[2][1])

\* C7: no two stored items of the guest store have the same id, also after
\* a multi-category submission whose addItem calls fall in one millisecond.
C7_UniqueIds ==
    \A i, j \in DOMAIN getLocalItems :
        i # j => getLocalItems[i].id # getLocalItems[j].id

(***************************************************************************)
(* Properties of the migration.                                            *)
(***************************************************************************)
\* the response of a request of which at least one insert batch failed
PartialFailure ==
    /\ mig.pc = "responded"
    /\ mig.status = 200
    /\ mig.migratedCount < Len(mig.items)

\* C2: when the endpoint failed at least one insert batch, the step in which
\* migrateGuestData takes the response up leaves the local items, the
\* first-record metadata and the guest flag as they were.
C2_NoClearOnPartialFailure ==
    [][(PartialFailure /\ mig'.pc = "idle") => UNCHANGED storageVars]_vars

\* the number of items in the batches of the request that succeeded so far,
\* counted on the table
RowsInserted == Len(remoteItems) - mig.remoteBefore

\* C3: the migratedCount of the response, and the count migrateGuestData
\* returns from it, is the number of rows of the batches whose insert
\* succeeded; at the response every batch has been attempted, also after a
\* failed one.
C3_CountsSucceededBatches ==
    /\ (mig.pc = "responded" /\ mig.status = 200) =>
          /\ mig.migratedCount = RowsInserted
          /\ mig.i >= Len(mig.items)
    /\ (mig.pc = "idle" /\ mig.status = 200 /\ last.op = "migrateGuestData"
            /\ last.outcome = "return" /\ last.net > 0) =>
          last.value.count = RowsInserted

\* a two-batch request whose first batch failed and whose second succeeded
C3_Witness ==
    /\ mig.pc = "idle" /\ mig.status = 200
    /\ last.op = "migrateGuestData" /\ last.outcome = "return"
    /\ Len(mig.items) = batchSize + 1
    /\ last.value.count = 1
    /\ Len(remoteItems) = 1

\* C4: a migrateGuestData call on an empty local set returns
\* {success: true, count: 0}, makes no network call (no session lookup, no
\* request) and changes nothing in local storage.
C4_EmptyIsLocalNoOp ==
    [][(mig.pc = "idle" /\ getLocalItems = <<>> /\ mig'.calls = mig.calls + 1) =>
          /\ last'.op = "migrateGuestData"
          /\ last'.outcome = "return"
          /\ last'.value = [success |-> TRUE, count |-> 0]
          /\ last'.net = 0
          /\ mig'.pc = "idle"
          /\ UNCHANGED <<storageVars, remoteItems, session>>]_vars

\* the call has returned on an empty local set while a session exists
C4_Witness ==
    /\ last.op = "migrateGuestData"
    /\ last.arg = <<0>>
    /\ last.outcome = "return"
    /\ last.value = [success |-> TRUE, count |-> 0]
    /\ session # NoSession
    /\ mig.pc = "idle"


(***************************************************************************)
(* Properties of login and of the invite codes.                            *)
(***************************************************************************)
RegisteredWith(p, code) ==
    /\ lg[p].pc = "done"
    /\ lg[p].result = "LoggedIn"
    /\ lg[p].isNewUser
    /\ toUpperCase(lg[p].inviteCode) = code

\* C5: an invite code registers at most one account: two login requests for
\* two different new accounts never both end in LoggedIn with isNewUser = true
\* on the same invite code.
C5_InviteConsumedOnce ==
    \A p, q \in Procs :
        (/\ p # q
         /\ emailOf(lg[p].username) # emailOf(lg[q].username)
         /\ RegisteredWith(p, CodeA))
        => ~RegisteredWith(q, CodeA)

\* C6: once is_used is true, no step changes used_by or used_at, resets
\* is_used, or removes the row.
C6_UsedCodeImmutable ==
    [][\A id \in DOMAIN invites :
         invites[id].is_used => (id \in DOMAIN invites' /\ invites'[id] = invites[id])]_vars


(***************************************************************************)
(* Properties of the report generator.                                     *)
(***************************************************************************)
serverMockOf(g) == generateMockReport(g.type, g.startDate, g.endDate)

\* C8: a generateReport call in which the completion API failed (another
\* status, no answer, or no API key) does not raise: it returns a text that is
\* not empty, the fallback report of the client or of the server.
C8_FallbackOnApiFailure ==
    \A p \in Procs :
        (gen[p].pc = "done" /\ gen[p].apiFailed)
        => /\ gen[p].result = "returned"
           /\ Truthy(gen[p].value)
           /\ gen[p].value \in {mockOf(gen[p]), serverMockOf(gen[p])}

C8_Witness ==
    \E p \in Procs :
        /\ gen[p].pc = "done"
        /\ gen[p].apiFailed
        /\ gen[p].apiCalls = 1
        /\ gen[p].status = 200
        /\ gen[p].value = serverMockOf(gen[p])

\* the handler takes a request of a signed-in user to the cache lookup
Lookup(p) ==
    /\ gen[p].pc = "fetch"
    /\ gen'[p].pc \notin {"fetch", "done"}
    /\ ~gen[p].isGuest
    /\ getUserIdFromToken(gen[p].token) # ""

C10_OneReportPerKey ==
    \A i, j \in DOMAIN reports : keyOf(reports[i]) = keyOf(reports[j]) => i = j

Generated(p) ==
    /\ gen[p].pc \in {"respond", "done"}
    /\ gen[p].status = 200
    /\ ~gen[p].cached
    /\ ~gen[p].isGuest

C10_Witness ==
    \E p, q \in Procs :
        /\ p # q
        /\ Generated(p)
        /\ Generated(q)
        /\ keyOfRequest(gen[p]) = keyOfRequest(gen[q])
        /\ gen[p].content # gen[q].content
        /\ Cardinality(cachedRows(reports, keyOfRequest(gen[p]))) = 1


(***************************************************************************)
(* Properties of deleteItem.                                               *)
(***************************************************************************)
\* C11: in guest mode a deleteItem(id) for an id no stored item has returns
\* without error and leaves the items and the first-record data as they were.
C11_DeleteMissingIsNoOp ==
    [][(/\ last'.op = "deleteItem"
        /\ <<last, lsItems>>' # <<last, lsItems>>
        /\ \A i \in DOMAIN getLocalItems : getLocalItems[i].id # last'.arg[1])
       => (/\ last'.outcome = "return"
           /\ getLocalItems' = getLocalItems
           /\ lsUser' = lsUser)]_vars

C11_Witness ==
    /\ last.op = "deleteItem"
    /\ last.outcome = "return"
    /\ last.arg[1] > clock
    /\ getLocalItems # <<>>
    /\ lsUser # Absent


(***************************************************************************)
(* Properties of the item gateway.                                         *)
(***************************************************************************)
Arrives(p, method) ==
    /\ req[p].pc = "idle"
    /\ req'[p].pc # "idle"
    /\ req'[p].method = method

\* a token of three parts whose payload has a sub
WellFormed(token) == Len(token) = 3 /\ token[2].sub # ""

Removed == {k \in DOMAIN remoteItems : \A j \in DOMAIN remoteItems' : remoteItems'[j] # remoteItems[k]}

C20_ScopedToCaller ==
    [][\A p \in Procs :
         /\ (Arrives(p, "GET") /\ req'[p].status = 200)
            => /\ WellFormed(req'[p].token)
               /\ \A i \in DOMAIN req'[p].items :
                     \E k \in DOMAIN remoteItems :
                        /\ remoteItems[k].id = req'[p].items[i].id
                        /\ remoteItems[k].user_id = req'[p].token[2].sub
         /\ (Arrives(p, "POST") /\ req'[p].status = 201)
            => /\ WellFormed(req'[p].token)
               /\ Len(remoteItems') = Len(remoteItems) + 1
               /\ remoteItems'[Len(remoteItems')].user_id = req'[p].token[2].sub
               /\ SubSeq(remoteItems', 1, Len(remoteItems)) = remoteItems
         /\ ((Arrives(p, "GET") \/ Arrives(p, "POST") \/ Arrives(p, "DELETE"))
             /\ ~WellFormed(req'[p].token))
            => /\ req'[p].status = 401
               /\ req'[p].pc = "done"
               /\ req'[p].items = <<>>
               /\ remoteItems' = remoteItems]_vars

C20_Witness ==
    \E p \in Procs :
        /\ req[p].pc = "done" /\ req[p].method = "GET" /\ req[p].status = 200
        /\ req[p].items # <<>>
        /\ \E k \in DOMAIN remoteItems : remoteItems[k].user_id # req[p].userId


(***************************************************************************)
(* Properties of the week view.                                            *)
(***************************************************************************)
itemOfRow(row) == view.items[row.id]

\* C13: the category of a shown item follows from the tag its content starts
\* with, the shown text is the content without that tag, and the items of the
\* day come ordered basic, energy, create, other and by ascending createdAt
\* within a category, whatever the order of the items held.
C13_CategoryAndOrder ==
    view.date # NullStr =>
        /\ {view.rows[i].id : i \in DOMAIN view.rows}
             = {k \in DOMAIN view.items : view.items[k].date = view.date}
        /\ \A i, j \in DOMAIN view.rows : view.rows[i].id = view.rows[j].id => i = j
        /\ \A i \in DOMAIN view.rows :
              LET c == itemOfRow(view.rows[i]).content
                  row == view.rows[i]
              IN  /\ c[1] = TagBasic => (row.category = "basic" /\ row.displayContent = Trim(Tail(c)))
                  /\ c[1] = TagEnergy => (row.category = "energy" /\ row.displayContent = Trim(Tail(c)))
                  /\ c[1] = TagCreate => (row.category = "create" /\ row.displayContent = Trim(Tail(c)))
                  /\ c[1] \notin {TagBasic, TagEnergy, TagCreate}
                       => (row.category = "other" /\ row.displayContent = c)
        /\ \A i, j \in DOMAIN view.rows :
              i < j =>
                 \/ categoryOrder(view.rows[i].category) < categoryOrder(view.rows[j].category)
                 \/ /\ view.rows[i].category = view.rows[j].category
                    /\ view.rows[i].createdAt <= view.rows[j].createdAt

C13_Witness ==
    \E i, j \in DOMAIN view.rows :
        /\ i < j
        /\ view.rows[i].category = "basic"
        /\ view.rows[j].category = "other"
        /\ view.rows[i].id > view.rows[j].id
        /\ view.rows[i].createdAt > view.rows[j].createdAt


(***************************************************************************)
(* Properties of generateRandomCode.                                       *)
(***************************************************************************)
CodeAlphabet ==
    {"A", "B", "C", "D", "E", "F", "G", "H", "J", "K", "L", "M", "N", "P", "Q", "R", "S", "T", "U", "V", "W", "X", "Y", "Z", "2", "3", "4", "5", "6", "7", "8", "9"}

\* C14: generateRandomCode(n) returns exactly n characters, each one of the 32
\* of ABCDEFGHJKLMNPQRSTUVWXYZ23456789 and none of 0, 1, I and O.
C14_CodeLengthAndAlphabet ==
    lastCode.made =>
        /\ Len(lastCode.code) = lastCode.length
        /\ \A i \in DOMAIN lastCode.code :
              lastCode.code[i] \in CodeAlphabet /\ lastCode.code[i] \notin {"0", "1", "I", "O"}
        /\ Cardinality(CodeAlphabet) = 32

C14_Witness ==
    /\ lastCode.made
    /\ lastCode.length >= 2
    /\ lastCode.code[1] = "A"
    /\ lastCode.code[lastCode.length] = "9"

\* ---- login: the existence check ----

\* the step of attempt p that settles a failed sign-in: the user lookup of
\* the handler, or the sign-in of the earlier handler when it does not log in
SettlesFailedSignIn(p) ==
    \/ lg[p].pc = "listUsers" /\ lg'[p].pc # "listUsers"
    \/ lg[p].pc = "signInByCode" /\ lg'[p].pc # "signInByCode" /\ lg'[p].result # "LoggedIn"

\* C15: a login attempt whose sign-in fails for a username that has an
\* account ends in WrongCredential at once, with or without an invite code:
\* it does not go on to the invite code lookup or the registration, and no
\* account or invite code row changes
C15_ExistingUserWrongCredential ==
    [][\A p \in Procs :
         (SettlesFailedSignIn(p) /\ emailOf(lg[p].username) \in emails)
            => /\ lg'[p].pc = "done"
               /\ lg'[p].result = "WrongCredential"
               /\ UNCHANGED <<accounts, invites>>]_vars

\* ---- login: the invite code of a new username ----

\* attempt p has ended in the given terminal state in this step of its
\* own, with no account, profile or invite code row changed
EndsUnchanged(p, result) ==
    /\ lg'[p].pc = "done"
    /\ lg'[p].result = result
    /\ lg'[p].userId = <<>>
    /\ UNCHANGED <<accounts, invites, profiles>>

C17_NewUserMarksCodeUsed ==
    [][\A p \in Procs :
         (/\ lg[p].pc # "done"
          /\ lg'[p].pc = "done"
          /\ lg'[p].result = "LoggedIn"
          /\ lg'[p].isNewUser)
            => /\ lg'[p].inviteId \in DOMAIN invites'
               /\ invites'[lg'[p].inviteId].code = toUpperCase(lg'[p].inviteCode)
               /\ invites'[lg'[p].inviteId].is_used
               /\ invites'[lg'[p].inviteId].used_by = lg'[p].userId
               /\ invites'[lg'[p].inviteId].used_at # 0]_vars

\* ---- login: the checks on the body ----

\* the username is not 3 to 20 letters, digits or underscores
BadUsername(username) ==
    \/ Len(username) < 3
    \/ Len(username) > 20
    \/ \E i \in DOMAIN username :
          /\ \A k \in 1..26 : username[i] # LowerCase[k] /\ username[i] # UpperCase[k]
          /\ username[i] \notin Digits
          /\ username[i] # "_"

\* C18: a login request whose username is malformed or whose password has
\* fewer than 6 characters ends at once in a validation error: the attempt
\* is never at the sign-in, the user lookup or the invite lookup, and the
\* step changes no account, invite code, profile or session
C18_MalformedBodyRejectedFirst ==
    [][\A p \in Procs :
         /\ (lg'[p].pc # "idle"
             /\ (BadUsername(lg'[p].username) \/ Len(lg'[p].password) < 6))
               => lg'[p].pc = "done" /\ lg'[p].result = "ValidationError"
         /\ (lg[p].pc = "idle" /\ lg'[p].result = "ValidationError")
               => UNCHANGED <<accounts, invites, profiles, session, remoteItems>>]_vars

\* C18 (witness): one request was rejected for a character outside the
\* class in a username of valid length, another for a password of 5
\* characters with a valid username
C18_Witness ==
    \E p \in Procs, q \in Procs :
        /\ lg[p].result = "ValidationError"
        /\ lg[p].username = <<"a", "-", "b">>
        /\ Len(lg[p].password) = 6
        /\ lg[q].result = "ValidationError"
        /\ ~BadUsername(lg[q].username)
        /\ Len(lg[q].password) = 5

\* ---- Data Service: routing by the guest flag ----

\* the items of the local store after the step
localItemsAfter == IF lsItems' = Absent THEN <<>> ELSE lsItems'[1]

\* C19: while the guest flag is set or the backend is not configured, a
\* getItems, addItem, deleteItem or updateItem call makes no network call and
\* leaves the remote store as it is, with or without a session: what it
\* returns comes from the local store and what it writes goes there
C19_GuestFlagRoutesLocal ==
    [][(lsGuest = Present("true") \/ ~configured)
          => /\ remoteItems' = remoteItems
             /\ nextId' = nextId
             /\ last' # last
                  => /\ last'.net = 0
                     /\ last'.op = "getItems"
                          => \A i \in DOMAIN last'.value :
                                \E j \in DOMAIN getLocalItems : getLocalItems[j] = last'.value[i]
                     /\ (last'.op \in {"addItem", "updateItem"} /\ last'.outcome = "return")
                          => \E j \in DOMAIN localItemsAfter : localItemsAfter[j] = last'.value
                     /\ last'.op = "deleteItem"
                          => \A j \in DOMAIN localItemsAfter :
                                localItemsAfter[j].id # last'.arg[1]]_vars

\* C19 (witness): with the guest flag set, the backend configured and a
\* session present, a deleteItem call for the id of a remote row of the
\* session's user has returned and the row is still there
C19_Witness ==
    /\ lsGuest = Present("true")
    /\ configured
    /\ session # NoSession
    /\ last.op = "deleteItem"
    /\ last.outcome = "return"
    /\ \E k \in DOMAIN remoteItems :
          /\ remoteItems[k].id = last.arg[1]
          /\ remoteItems[k].user_id = userOf(session)

\* ---- guest store: firstRecordDate ----

\* C22: in guest mode the first addItem sets firstRecordDate to the time of
\* the call, and once set no addItem, whatever the date of its item, and no
\* deleteItem, also one that empties the item set, changes or clears it
C22_FirstRecordDateSetOnce ==
    [][/\ (lsUser # Absent /\ lsUser[1].firstRecordDate # NullNum) => lsUser' = lsUser
       /\ (lsUser = Absent /\ last' # last /\ last'.op = "addItem")
            => /\ lsUser' # Absent
               /\ lsUser'[1].firstRecordDate >= clock
               /\ lsUser'[1].firstRecordDate <= clock'
       /\ (lsUser = Absent /\ last'.op # "addItem") => lsUser' = Absent]_vars

\* C22 (witness): firstRecordDate is set, a deleteItem has emptied the item
\* set, and the clock has moved on since firstRecordDate was written
C22_Witness ==
    /\ lsUser # Absent
    /\ lsUser[1].firstRecordDate < clock
    /\ last.op = "deleteItem"
    /\ lsItems = Present(<<>>)

\* ---- guest store: updateItem ----

\* a guest updateItem call completes in this step
Updates == last' # last /\ last'.op = "updateItem"

\* C23: a guest updateItem for an id no stored item has throws 'Item not
\* found', leaves the local store as it is and dispatches no event; for an
\* id that is stored it returns the item, changes at most the content and
\* the date of one item with that id and keeps the ids, the createdAt
\* values and the number of the stored items
C23_UpdateNeedsStoredId ==
    [][Updates =>
         IF \A j \in DOMAIN getLocalItems : getLocalItems[j].id # last'.arg[1]
         THEN /\ last'.outcome = "throw"
              /\ last'.value = "Item not found"
              /\ last'.events = 0
              /\ lsItems' = lsItems
         ELSE /\ last'.outcome = "return"
              /\ lsItems' # Absent
              /\ Len(lsItems'[1]) = Len(getLocalItems)
              /\ \E k \in DOMAIN getLocalItems :
                    /\ getLocalItems[k].id = last'.arg[1]
                    /\ lsItems'[1][k] = last'.value
                    /\ \A j \in DOMAIN getLocalItems : j # k => lsItems'[1][j] = getLocalItems[j]
              /\ \A j \in DOMAIN getLocalItems :
                    /\ lsItems'[1][j].id = getLocalItems[j].id
                    /\ lsItems'[1][j].createdAt = getLocalItems[j].createdAt]_vars

\* C23 (witness): an updateItem has thrown while an item with another id
\* was stored
C23_Witness ==
    /\ last.op = "updateItem"
    /\ last.outcome = "throw"
    /\ getLocalItems # <<>>
    /\ \A j \in DOMAIN getLocalItems : getLocalItems[j].id # last.arg[1]

\* ---- profile page: the stats loaded from the notification ----

\* C28: the stats the profile page loads, also those loaded from the
\* 'storage-update' event of a guest addItem, never show one item or more
\* together with no firstRecordDate
C28_StatsSeeWholeAdd ==
    stats.loaded => ~(stats.totalItems >= 1 /\ stats.firstRecordDate = NullNum)

\* ---- login: a sign-up that fails ----

\* the sign-up of attempt p fails in this step
SignUpFails(p) == lg[p].pc = "signUp" /\ lg'[p].pc = "done"

\* C30 (as claimed): when the sign-up of an attempt fails, the attempt ends
\* in an error, no account exists for its username and the invite code it
\* validated, while its row is there, is still unused
C30_FailedSignUpLeavesNothing ==
    [][\A p \in Procs :
         SignUpFails(p)
            => /\ lg'[p].result = "SignUpFailed"
               /\ emailOf(lg[p].username) \notin {a.email : a \in accounts'}
               /\ lg[p].inviteId \in DOMAIN invites'
                    => ~invites'[lg[p].inviteId].is_used]_vars

\* C30 (amended): when the sign-up of an attempt fails, the attempt ends in
\* an error and the step creates no account or profile and changes no invite
\* code row: a username without an account and a code that was unused
\* before the sign-up are so after it
C30_FailedSignUpChangesNothing ==
    [][\A p \in Procs :
         SignUpFails(p)
            => /\ lg'[p].result = "SignUpFailed"
               /\ ~lg'[p].isNewUser
               /\ lg'[p].userId = <<>>
               /\ UNCHANGED <<accounts, invites, profiles>>]_vars

\* C30 (witness): the sign-up of one attempt has failed and another attempt
\* has registered with the same invite code row, which is marked used by it
C30_Witness ==
    \E p \in Procs, q \in Procs :
        /\ lg[p].result = "SignUpFailed"
        /\ lg[p].username # lg[q].username
        /\ lg[q].result = "LoggedIn" /\ lg[q].isNewUser
        /\ lg[q].inviteId = lg[p].inviteId
        /\ lg[q].inviteId \in DOMAIN invites
        /\ invites[lg[q].inviteId].used_by = lg[q].userId

\* ---- report: the fallback report in the cache ----

\* the handler stores the report of request p, whose completion API call
\* failed or was not made for want of a key
StoresFallback(p) == gen[p].pc = "insert" /\ gen'[p].pc # "insert" /\ gen[p].apiFailed

\* the table holds the fallback report of request p under its key
HoldsFallback(table, p) ==
    \E i \in DOMAIN table :
        /\ keyOf(table[i]) = keyOfRequest(gen[p])
        /\ table[i].content = generateMockReport(gen[p].type, gen[p].startDate, gen[p].endDate)

C21_LogoutKeepsGuestSession ==
    [][(last' # last /\ last'.op = "logout" /\ lsGuest = Present("true") /\ auth.isGuest)
          => (lsGuest' = Present("true") /\ auth'.isGuest)]_vars

\* ---- invite issuance ----

\* C25: the issuance loop is bounded: no unit makes more than 10 insert
\* attempts, a unit that has inserted a code makes no further attempt, and a
\* request for N codes makes at most 10 * N insert attempts, whatever the
\* store answers; every attempt counts
C25_IssuanceBounded ==
    [][/\ iss'.attempts <= 10
       /\ iss'.tried <= 10 * iss'.count
       /\ iss'.pc = "loop" => iss'.attempts < 10 /\ iss'.i < iss'.count
       /\ (iss.pc = "loop" /\ iss' # iss)
            => /\ iss'.tried = iss.tried + 1
               /\ Len(iss'.codes) > Len(iss.codes) => (iss'.i = iss.i + 1 /\ iss'.attempts = 0)]_vars

\* C25 (witness): a request for 2 codes has ended after 20 insert attempts
C25_Witness ==
    /\ iss.pc = "done"
    /\ iss.count = 2
    /\ iss.tried = 20
    /\ iss.failed = {0, 1}

\* the rows of invite_codes that the request has added
NewRows == {id \in DOMAIN invites : id > 1}

\* C26: a request for N codes, 1 <= N <= 100, adds between 0 and N rows;
\* when it is answered, every unit has either inserted a code or used up its
\* attempts, the count of the response is the number of rows added, and the
\* rows added are unused and hold the codes of the response, all different
C26_BulkCountsInserted ==
    /\ Cardinality(NewRows) <= iss.count
    /\ Cardinality(NewRows) = Len(iss.codes)
    /\ \A id \in NewRows :
          /\ ~invites[id].is_used
          /\ invites[id].code = iss.codes[id - 1]
          /\ \A other \in DOMAIN invites : invites[other].code = invites[id].code => other = id
    /\ (iss.pc = "done" /\ iss.status = 200)
          => /\ iss.count >= 1 /\ iss.count <= 100
             /\ iss.responseCount = Cardinality(NewRows)
             /\ Len(iss.codes) + Cardinality(iss.failed) = iss.count

\* C26 (witness): the first unit of a request for 2 codes failed all its
\* attempts and the second inserted a code; the response counts 1
C26_Witness ==
    /\ iss.pc = "done"
    /\ iss.status = 200
    /\ iss.count = 2
    /\ iss.failed = {0}
    /\ iss.responseCount = 1
    /\ Cardinality(NewRows) = 1

\* ---- data-changed notifications ----

MutatingOps == {"addItem", "deleteItem", "updateItem", "migrateGuestData"}

\* C24: a mutating operation of the Data Service that returns (addItem,
\* deleteItem, updateItem in guest and in remote mode, and a
\* migrateGuestData that sent items) has dispatched at least one
\* 'storage-update' event; one that throws has dispatched none; and no step
\* of a client changes the local items, or the rows of review_items outside
\* the migration handler, without the event
C24_MutationsBroadcast ==
    [][/\ (last' # last /\ last'.op \in MutatingOps)
            => /\ (last'.outcome = "return"
                     /\ (last'.op = "migrateGuestData" => last'.arg[1] > 0))
                    => last'.events >= 1
               /\ last'.outcome = "throw" => last'.events = 0
       /\ lsItems' # lsItems => (last'.op \in MutatingOps /\ last'.events >= 1)
       /\ (remoteItems' # remoteItems /\ mig.pc # "server")
            => (last'.op \in MutatingOps /\ last'.net >= 1 /\ last'.events >= 1)]_vars

\* C24 (witness): a migrateGuestData that uploaded an item has returned
\* with its event, after which a remote deleteItem can follow
C24_Witness ==
    /\ last.op = "migrateGuestData"
    /\ last.outcome = "return"
    /\ last.value.count > 0
    /\ last.events = 1
    /\ lsItems = Absent
    /\ Len(remoteItems) > 1

\* ---- the add dialog in remote mode ----

\* the categories of the dialog that hold more than white space
Filled(contents) == {c \in {"basic", "energy", "create"} : Trim(contents[c]) # <<>>}

\* C27: a submission issues one addItem per filled category, all of them
\* before it waits; it is reported as done only when every call has
\* returned and as failed when a call has thrown; and the row of every call
\* that has returned is in review_items with the content of the call,
\* whether or not the submission failed
C27_ParallelSubmitNoRollback ==
    sub.pc # "idle" =>
        /\ Len(sub.calls) = Cardinality(Filled(sub.contents))
        /\ DOMAIN sub.state = DOMAIN sub.calls
        /\ (sub.pc = "settled" /\ sub.result = "ok")
              => \A k \in DOMAIN sub.state : sub.state[k] = "stored"
        /\ (sub.pc = "settled" /\ \E k \in DOMAIN sub.state : sub.state[k] = "failed")
              => sub.result = "failed"
        /\ sub.pc = "waiting" => sub.result = "none"
        /\ \A k \in DOMAIN sub.state :
              sub.state[k] = "stored"
                 => \E j \in DOMAIN remoteItems :
                       /\ remoteItems[j].id = sub.rows[k]
                       /\ remoteItems[j].content = sub.calls[k]
                       /\ remoteItems[j].record_date = sub.date

\* C27 (witness): of three calls the second was answered first and stored,
\* the first failed, the submission was reported as failed, and the third,
\* answered after that, is stored too
C27_Witness ==
    /\ sub.pc = "settled"
    /\ sub.result = "failed"
    /\ sub.state = <<"failed", "stored", "stored">>
    /\ sub.rows[2] < sub.rows[3]
    /\ Len(remoteItems) >= 2

====
